---- MODULE Spec2Model ----
(***************************************************************************)
(* State-machine model of the int3rceptor core: the capture ring           *)
(* (core/src/capture.rs), the rule engine (int3rceptor/core/src/rules.rs), *)
(* the proxy data plane (core/src/proxy.rs), the Intruder                  *)
(* (core/src/intruder.rs), the active Scanner (core/src/scanner/mod.rs),   *)
(* the plugin manager (core/src/plugin), the certificate cache             *)
(* (core/src/cert_manager.rs), the WebSocket capture                       *)
(* (int3rceptor/core/src/websocket.rs), the scope manager                  *)
(* (core/src/scope.rs) and the capture store                               *)
(* (int3rceptor/core/src/storage.rs).                                      *)
(* Each subsystem has its own specification over the shared variables; the *)
(* variables of the other subsystems stay at their initial values.         *)
(***************************************************************************)
EXTENDS Integers, Sequences, FiniteSets, Bags, TLC

VARIABLES
    \* ---- RequestCapture (core/src/capture.rs) ----
    capacity,     \* RequestCapture.capacity
    entries,      \* RequestCapture.entries, front of the deque first
    counter,      \* RequestCapture.counter
    notifier,     \* entries sent on the broadcast channel, in send order
    storage,      \* whether a CaptureStorage is configured (Option is Some)
    rows,         \* ids of the rows of the captures table
    pushPc,       \* per pushing thread: position inside push()
    pushEntry,    \* per pushing thread: the entry being pushed
    clearPc,      \* position of the thread running clear()
    handed,       \* ids in the order fetch_add handed them out
    inserted,     \* ids in the order they were inserted into the ring
    returned,     \* bag of the ids push() has returned
    clears,       \* number of clear() calls that emptied the ring
    before_clear, \* ids whose push had returned when clear() was called
    clear_err,    \* whether storage.clear() returned Err to clear()
    insert_err,   \* whether storage.insert() returned Err to a push
    \* ---- RuleEngine (int3rceptor/core/src/rules.rs) ----
    rules,        \* RuleEngine.rules, in insertion order
    regex_cache,  \* RuleEngine.regex_cache: the patterns compiled so far
    passPc,       \* "idle", or the direction of the pass in progress
    passIdx,      \* index of the next rule the loop of the pass visits
    passUrl,      \* parts.uri of the request of the pass
    passHeaders,  \* parts.headers as the pass has left them so far
    passBody,     \* body as the pass has left it so far
    passInput,    \* headers and body as they were handed to the pass
    applied,      \* indices of the rules whose action the pass executed
    bodyRewritten,\* whether the last visited rule assigned the body
    hadLength,    \* whether Content-Length was present before that rule
    \* ---- ProxyServer (core/src/proxy.rs), ScopeManager (core/src/scope.rs) ----
    scope,        \* ScopeManager.config: includes and excludes
    tls,          \* whether ProxyServer.tls is Some
    runPc,        \* position of ProxyServer::run: "accepting" or "returned"
    REQUEST_COUNTER, \* the static request counter
    conn,         \* per accepted connection: the state of its service
    tun,          \* per accepted connection: the spawned CONNECT child task
    \* ---- the clients of the Intruder and of the Scanner ----
    api,          \* the engine the control surface drives
    call,         \* per client: its position inside the start call
    last_return,  \* what the start call that returned last returned
    stop_called,  \* whether stop was called since the last start that won
    stopped,      \* the jobs that a stop call was made on
    \* ---- Intruder (core/src/intruder.rs) ----
    intruder_is_running, \* Intruder.is_running
    results,      \* Intruder.results
    attacks,      \* number of start_attack calls that won the swap
    disp,         \* per attack: its dispatcher task
    task,         \* per attack and request: its request task
    \* ---- Scanner (core/src/scanner/mod.rs) ----
    scanner_is_running, \* Scanner.is_running
    scan_id,      \* Scanner.scan_id
    requests_scanned, \* Scanner.requests_scanned
    sdisp,        \* per scan: its dispatcher task
    stask,        \* per scan and target: the task running run_active_tests
    \* ---- a subscriber of the capture broadcast (core/src/capture.rs) ----
    subscribed_at, \* number of entries sent before subscribe(), -1 before it
    received,     \* ids the receiver has received, in order
    \* ---- PluginManager (core/src/plugin/manager.rs) ----
    plugins,      \* PluginManager.plugins: the loaded plugins
    hookPc,       \* position of the caller of execute_hook
    hook_order,   \* the order plugins.values() yielded the plugins in
    hook_input,   \* the context execute_hook was called with
    hook_calls,   \* the call_hook invocations execute_hook made, in order
    hook_output,  \* the context execute_hook returned
    reload,       \* a reload_plugin call between its unload and its load
    \* ---- CertManager (core/src/cert_manager.rs) ----
    cert_cache,   \* CertManager.cert_cache: host -> the cached leaf pair
    key_pairs,    \* number of leaf key pairs generated so far
    certPc,       \* per handshake: its position inside generate_cert
    issued,       \* the (host, pair) results generate_cert has returned
    \* ---- WsCapture (int3rceptor/core/src/websocket.rs) ----
    ws_max_frames, \* WsCapture.max_frames
    ws_max_frames_per_connection, \* WsCapture.max_frames_per_connection
    ws_connections, \* WsCapture.connections
    ws_frames,    \* WsCapture.frames, oldest first
    wsPc,         \* per capturing thread: its position inside capture_frame
    wsClearPc,    \* position of the thread running clear()
    ws_pushed,    \* number of frames pushed onto WsCapture.frames so far
    ws_evicted,   \* number of frames the two caps have evicted so far
    ws_ids,       \* the ids capture_frame has returned, in return order
    \* ---- a caller of ScopeManager::is_in_scope (int3rceptor/core/src/scope.rs) ----
    scope_answer, \* the last is_in_scope call: the config it read, its url, its result
    \* ---- CaptureStorage (int3rceptor/core/src/storage.rs) ----
    encryption,   \* whether CaptureStorage.encryption is enabled
    row_damage,   \* per stored row: the column whose GCM tag no longer verifies
    query_out,    \* the last query: the table it read and what it returned
    \* ---- a caller of Intruder::generate_requests (core/src/intruder.rs) ----
    generated     \* the last generate_requests call: its arguments and its corpus

captureVars == <<capacity, entries, counter, notifier, storage, rows, pushPc, pushEntry,
                 clearPc, handed, inserted, returned, clears, before_clear, clear_err, insert_err>>

ruleVars == <<rules, regex_cache, passPc, passIdx, passUrl, passHeaders, passBody,
              passInput, applied, bodyRewritten, hadLength>>

proxyVars == <<scope, tls, runPc, REQUEST_COUNTER, conn, tun>>

callVars == <<api, call, last_return, stop_called, stopped>>

intruderVars == <<intruder_is_running, results, attacks, disp, task>>

scannerVars == <<scanner_is_running, scan_id, requests_scanned, sdisp, stask>>

subVars == <<subscribed_at, received>>

pluginVars == <<plugins, hookPc, hook_order, hook_input, hook_calls, hook_output,
                reload>>

certVars == <<cert_cache, key_pairs, certPc, issued>>

scopeVars == <<scope_answer>>

storeVars == <<encryption, row_damage, query_out>>

\* RequestCapture without the table of its store.
ringVars == <<capacity, entries, counter, notifier, storage, pushPc, pushEntry, clearPc,
              handed, inserted, returned, clears, before_clear, clear_err, insert_err>>

genVars == <<generated>>

wsVars == <<ws_max_frames, ws_max_frames_per_connection, ws_connections, ws_frames, wsPc,
            wsClearPc, ws_pushed, ws_evicted, ws_ids>>

vars == <<captureVars, ruleVars, proxyVars, callVars, intruderVars, scannerVars, subVars,
          pluginVars,
          certVars,
          wsVars,
          scopeVars,
          storeVars,
          genVars>>

nonCaptureVars == <<ruleVars, proxyVars, callVars, intruderVars, scannerVars, subVars,
                    pluginVars,
          certVars,
          wsVars,
          scopeVars,
          storeVars,
          genVars>>

nonRuleVars == <<captureVars, proxyVars, callVars, intruderVars, scannerVars, subVars,
                 pluginVars,
          certVars,
          wsVars,
          scopeVars,
          storeVars,
          genVars>>

\* What a subscriber leaves alone.
nonSubVars == <<captureVars, ruleVars, proxyVars, callVars, intruderVars, scannerVars,
                pluginVars,
          certVars,
          wsVars,
          scopeVars,
          storeVars,
          genVars>>

\* What the plugin manager leaves alone.
nonPluginVars == <<captureVars, ruleVars, proxyVars, callVars, intruderVars, scannerVars,
                   subVars,
          certVars,
          wsVars,
          scopeVars,
          storeVars,
          genVars>>

\* What the certificate manager leaves alone.
nonCertVars == <<captureVars, ruleVars, proxyVars, callVars, intruderVars, scannerVars,
                 subVars, pluginVars,
          wsVars,
          scopeVars,
          storeVars,
          genVars>>

\* What the WebSocket capture leaves alone.
nonWsVars == <<captureVars, ruleVars, proxyVars, callVars, intruderVars, scannerVars,
               subVars, pluginVars, certVars,
          scopeVars,
          storeVars,
          genVars>>

\* What a caller of is_in_scope leaves alone.
nonScopeVars == <<captureVars, ruleVars, proxyVars, callVars, intruderVars, scannerVars,
                  subVars, pluginVars, certVars, wsVars,
          storeVars,
          genVars>>

\* What the store driven directly leaves alone, the ring aside.
nonStoreVars == <<ruleVars, proxyVars, callVars, intruderVars, scannerVars, subVars,
                  pluginVars, certVars, wsVars, scopeVars,
          genVars>>

\* What a caller of generate_requests leaves alone.
nonGenVars == <<captureVars, ruleVars, proxyVars, callVars, intruderVars, scannerVars,
                subVars, pluginVars, certVars, wsVars, scopeVars, storeVars>>

\* What the Intruder, the Scanner and their clients leave alone.
nonJobVars == <<captureVars, ruleVars, proxyVars, subVars, pluginVars,
          certVars,
          wsVars,
          scopeVars,
          storeVars,
          genVars>>

\* What the proxy leaves alone; it pushes into the capture ring.
nonProxyVars == <<ruleVars, callVars, intruderVars, scannerVars, subVars, pluginVars,
          certVars,
          wsVars,
          scopeVars,
          storeVars,
          genVars>>

\* ------------------------------------------------------------------------
\* Bounds of the model
\* ------------------------------------------------------------------------
MaxPushes == 3
MaxCapacity == 2
MaxRules == 2
MaxRequests == 2
MaxWork == 2
MaxPlugins == 2
MaxKeyPairs == 3
MaxFrames == 3
MaxPatterns == 1
MaxRows == 3
MaxPayloads == 2
MaxPositions == 2

\* ------------------------------------------------------------------------
\* Generic helpers
\* ------------------------------------------------------------------------
Min(a, b) == IF a < b THEN a ELSE b

Max(a, b) == IF a > b THEN a ELSE b

RECURSIVE Reverse(_)
Reverse(s) == IF s = <<>> THEN <<>> ELSE Append(Reverse(Tail(s)), Head(s))

LastN(s, n) == SubSeq(s, Len(s) - n + 1, Len(s))

Range(s) == {s[i] : i \in 1..Len(s)}

\* ------------------------------------------------------------------------
\* RequestCapture
\* ------------------------------------------------------------------------
DEFAULT_CAPACITY == 10000

\* Two threads calling push concurrently.
Pushers == {"t1", "t2"}

CaptureUrls == {"u1", "u2"}

\* RequestCapture::with_storage: a capacity of 0 selects the default.
EffectiveCapacity(c) == IF c = 0 THEN DEFAULT_CAPACITY ELSE c

\* counter.fetch_add(1): the value the counter holds afterwards.
FetchAddLost(c) == c

FetchAdd(c) == c + 1

\* push, under the write guard: `while guard.len() > capacity { pop_back }`.
RECURSIVE EvictFront(_, _)
EvictFront(q, cap) == IF Len(q) > cap THEN EvictFront(Tail(q), cap) ELSE q

RECURSIVE Evict(_, _)
Evict(q, cap) == IF Len(q) > cap THEN Evict(SubSeq(q, 1, Len(q) - 1), cap) ELSE q

\* push, under the write guard: push_front then evict.
RingPush(q, e, cap) == Evict(<<e>> \o q, cap)

\* push, line 86-92: allocate the id and patch it into the record.
PushAlloc(p) ==
    /\ pushPc[p] = "idle"
    /\ Len(handed) < MaxPushes
    /\ \E u \in CaptureUrls :
         pushEntry' = [pushEntry EXCEPT ![p] = [id |-> counter, url |-> u]]
    /\ counter' = FetchAdd(counter)
    /\ handed' = Append(handed, counter)
    /\ pushPc' = [pushPc EXCEPT ![p] = "insert"]
    /\ UNCHANGED <<capacity, entries, notifier, storage, rows, clearPc, inserted,
                   returned, clears,
                   before_clear, clear_err, insert_err>>
    /\ UNCHANGED nonCaptureVars

\* push, line 93-98: the critical section on the ring.
PushInsert(p) ==
    /\ pushPc[p] = "insert"
    /\ entries' = RingPush(entries, pushEntry[p], capacity)
    /\ inserted' = Append(inserted, pushEntry[p].id)
    /\ pushPc' = [pushPc EXCEPT ![p] = "notify"]
    /\ UNCHANGED <<capacity, counter, notifier, storage, rows, pushEntry, clearPc,
                   handed, returned, clears,
                   before_clear, clear_err, insert_err>>
    /\ UNCHANGED nonCaptureVars

\* push, line 99: send on the broadcast channel.
PushNotify(p) ==
    /\ pushPc[p] = "notify"
    /\ notifier' = Append(notifier, pushEntry[p].id)
    /\ pushPc' = [pushPc EXCEPT ![p] = "persist"]
    /\ UNCHANGED <<capacity, entries, counter, storage, rows, pushEntry, clearPc,
                   handed, inserted, returned, clears,
                   before_clear, clear_err, insert_err>>
    /\ UNCHANGED nonCaptureVars

\* push, line 101-105: what the ids push has returned become when
\* storage.insert returned Err: the error is logged and push returns the id.
PersistErrFailsPush(ret, id) == ret

PersistErrIsLogged(ret, id) == ret (+) SetToBag({id})

\* push, line 100-105: persist (an error is only logged) and return the id.
PushPersist(p) ==
    /\ pushPc[p] = "persist"
    /\ \/ /\ ~storage                              \* no store
          /\ rows' = rows
          /\ returned' = returned (+) SetToBag({pushEntry[p].id})
          /\ UNCHANGED insert_err
       \/ /\ storage                               \* insert failed
          /\ rows' = rows
          /\ returned' = PersistErrIsLogged(returned, pushEntry[p].id)
          /\ insert_err' = TRUE
       \/ /\ storage                               \* INSERT OR REPLACE
          /\ rows' = rows \cup {pushEntry[p].id}
          /\ returned' = returned (+) SetToBag({pushEntry[p].id})
          /\ UNCHANGED insert_err
    /\ pushPc' = [pushPc EXCEPT ![p] = "idle"]
    /\ UNCHANGED <<capacity, entries, counter, notifier, storage, pushEntry,
                   clearPc, handed, inserted, clears,
                   before_clear, clear_err>>
    /\ UNCHANGED nonCaptureVars

\* clear, line 118: empty the ring.
ClearRing ==
    /\ clearPc = "idle"
    /\ clears < 1
    /\ entries' = <<>>
    /\ clears' = clears + 1
    /\ before_clear' = BagToSet(returned)
    /\ clearPc' = "store"
    /\ UNCHANGED <<capacity, counter, notifier, storage, rows, pushPc, pushEntry,
                   handed, inserted, returned, clear_err, insert_err>>
    /\ UNCHANGED nonCaptureVars

\* CaptureStorage::clear: DELETE FROM captures.
DeleteAll(r) == {}

\* clear, line 119-123: DELETE FROM captures (an error is only logged).
ClearStore ==
    /\ clearPc = "store"
    /\ \/ /\ ~storage                              \* no store
          /\ UNCHANGED <<rows, clear_err>>
       \/ /\ storage                               \* connect or DELETE failed
          /\ rows' = rows
          /\ clear_err' = TRUE
       \/ /\ storage
          /\ rows' = DeleteAll(rows)
          /\ UNCHANGED clear_err
    /\ clearPc' = "idle"
    /\ UNCHANGED <<capacity, entries, counter, notifier, storage, pushPc,
                   pushEntry, handed, inserted, returned, clears, before_clear,
                   insert_err>>
    /\ UNCHANGED nonCaptureVars

\* get_all, line 113-115: the ids of the ring, front first.
GetAll == [i \in 1..Len(entries) |-> entries[i].id]

\* query, line 138-149, with a filter that matches everything: what it may
\* return.  With a store it returns the rows, or nothing when the store's
\* query fails (unwrap_or_default); without one it filters the ring.
QueryResults == IF storage THEN {rows, {}} ELSE {Range(GetAll)}

InitCapture ==
    /\ capacity \in {EffectiveCapacity(c) : c \in 0..MaxCapacity}
    /\ entries = <<>>
    /\ counter = 1
    /\ notifier = <<>>
    /\ storage \in BOOLEAN
    /\ rows = {}
    /\ pushPc = [p \in Pushers |-> "idle"]
    /\ pushEntry = [p \in Pushers |-> [id |-> 0, url |-> "u1"]]
    /\ clearPc = "idle"
    /\ handed = <<>>
    /\ inserted = <<>>
    /\ returned = EmptyBag
    /\ clears = 0
    /\ before_clear = {}
    /\ clear_err = FALSE
    /\ insert_err = FALSE

NextCapture ==
    \/ \E p \in Pushers : PushAlloc(p)
    \/ \E p \in Pushers : PushInsert(p)
    \/ \E p \in Pushers : PushNotify(p)
    \/ \E p \in Pushers : PushPersist(p)
    \/ ClearRing
    \/ ClearStore

\* subscribe, line 134-136: a receiver that sees what is sent from now on.
Subscribe ==
    /\ subscribed_at = -1
    /\ subscribed_at' = Len(notifier)
    /\ UNCHANGED received
    /\ UNCHANGED nonSubVars

\* The receiver takes the oldest entry it has not received yet.  The channel
\* holds 1024 entries (line 67), so this receiver never lags.
Recv ==
    /\ subscribed_at >= 0
    /\ subscribed_at + Len(received) < Len(notifier)
    /\ received' = Append(received, notifier[subscribed_at + Len(received) + 1])
    /\ UNCHANGED subscribed_at
    /\ UNCHANGED nonSubVars

\* No receiver yet.
InitSubscriber ==
    /\ subscribed_at = -1
    /\ received = <<>>

NextBroadcast == NextCapture \/ Subscribe \/ Recv

\* ------------------------------------------------------------------------
\* Strings and bytes.  A String is a sequence of code points, a body is a
\* sequence of bytes; 65533 is U+FFFD, whose UTF-8 encoding is EF BF BD.
\* ------------------------------------------------------------------------
REPLACEMENT_CHARACTER == 65533

\* String::from_utf8_lossy on the bytes the model uses: ASCII bytes decode to
\* themselves, EF BF BD to U+FFFD, any other byte is invalid and is replaced.
RECURSIVE FromUtf8Lossy(_)
FromUtf8Lossy(b) ==
    IF b = <<>> THEN <<>>
    ELSE IF Head(b) < 128 THEN <<Head(b)>> \o FromUtf8Lossy(Tail(b))
    ELSE IF Len(b) >= 3 /\ b[1] = 239 /\ b[2] = 191 /\ b[3] = 189
         THEN <<REPLACEMENT_CHARACTER>> \o FromUtf8Lossy(SubSeq(b, 4, Len(b)))
    ELSE <<REPLACEMENT_CHARACTER>> \o FromUtf8Lossy(Tail(b))

\* String::into_bytes.
RECURSIVE IntoBytes(_)
IntoBytes(s) ==
    IF s = <<>> THEN <<>>
    ELSE IF Head(s) = REPLACEMENT_CHARACTER THEN <<239, 191, 189>> \o IntoBytes(Tail(s))
    ELSE <<Head(s)>> \o IntoBytes(Tail(s))

\* usize::to_string(): the decimal digits of n.
RECURSIVE UsizeToString(_)
UsizeToString(n) == IF n < 10 THEN <<48 + n>> ELSE Append(UsizeToString(n \div 10), 48 + (n % 10))

StartsWith(s, t) == Len(s) >= Len(t) /\ SubSeq(s, 1, Len(t)) = t

\* str::contains.
Contains(s, t) == \E i \in 0..(Len(s) - Len(t)) : SubSeq(s, i + 1, i + Len(t)) = t

\* str::replace: every non-overlapping occurrence, left to right; an empty
\* target matches at every character boundary.
RECURSIVE StrReplace(_, _, _)
StrReplace(s, t, r) ==
    IF t = <<>>
    THEN IF s = <<>> THEN r ELSE r \o <<Head(s)>> \o StrReplace(Tail(s), t, r)
    ELSE IF Len(s) < Len(t) THEN s
    ELSE IF StartsWith(s, t) THEN r \o StrReplace(SubSeq(s, Len(t) + 1, Len(s)), t, r)
    ELSE <<Head(s)>> \o StrReplace(Tail(s), t, r)

\* ------------------------------------------------------------------------
\* Regex: the patterns of the model are non-empty sequences of literal
\* characters and '.', which matches any character; a pattern holding an
\* unclosed '(' does not compile.
\* ------------------------------------------------------------------------
DOT == 46

LPAREN == 40

\* Regex::new(pattern).is_ok()
RegexCompiles(p) == \A i \in 1..Len(p) : p[i] # LPAREN

RegexMatchesPrefix(p, s) ==
    /\ Len(s) >= Len(p)
    /\ \A i \in 1..Len(p) : p[i] = DOT \/ p[i] = s[i]

\* Regex::is_match
RegexIsMatch(p, s) ==
    \E i \in 0..(Len(s) - Len(p)) : RegexMatchesPrefix(p, SubSeq(s, i + 1, Len(s)))

\* Regex::replace_all with a replacement that holds no `$`.
RECURSIVE RegexReplaceAll(_, _, _)
RegexReplaceAll(p, s, r) ==
    IF Len(s) < Len(p) THEN s
    ELSE IF RegexMatchesPrefix(p, s)
         THEN r \o RegexReplaceAll(p, SubSeq(s, Len(p) + 1, Len(s)), r)
    ELSE <<Head(s)>> \o RegexReplaceAll(p, Tail(s), r)

\* ------------------------------------------------------------------------
\* http::HeaderMap, as a function from the (lower-case) names present to
\* their values.
\* ------------------------------------------------------------------------
CONTENT_LENGTH == "content-length"

\* HeaderName::from_bytes: lower-cases a valid name; "" stands for Err.
HeaderNameFromBytes(k) ==
    CASE k = "Content-Length" -> CONTENT_LENGTH
      [] k = "content-length" -> CONTENT_LENGTH
      [] k = "X-A" -> "x-a"
      [] k = "x-a" -> "x-a"
      [] OTHER -> ""

\* HeaderValue::from_str(v).is_ok(), and HeaderValue::to_str().is_ok():
\* visible ASCII and tab only.
HeaderValueOk(v) == \A i \in 1..Len(v) : v[i] = 9 \/ (v[i] >= 32 /\ v[i] < 127)

ContainsKey(h, name) == name \in DOMAIN h

\* HeaderMap::insert: replaces whatever the name held.
HeaderInsert(h, name, v) ==
    [n \in (DOMAIN h) \cup {name} |-> IF n = name THEN v ELSE h[n]]

\* HeaderMap::remove.
HeaderRemove(h, name) == [n \in (DOMAIN h) \ {name} |-> h[n]]

\* headers.get(k).and_then(|val| val.to_str().ok()): TRUE when it is Some.
HeaderGetStr(h, k) ==
    LET name == HeaderNameFromBytes(k)
    IN  name # "" /\ ContainsKey(h, name) /\ HeaderValueOk(h[name])

\* ------------------------------------------------------------------------
\* RuleEngine
\* ------------------------------------------------------------------------
Cond(kind, k, s) == [kind |-> kind, k |-> k, s |-> s]

Act(kind, k, a, b) == [kind |-> kind, k |-> k, a |-> a, b |-> b]

Rule(active, rule_type, condition, action) ==
    [active |-> active, rule_type |-> rule_type, condition |-> condition,
     action |-> action]

\* The pattern a condition compiles, if any.
ConditionPattern(c) ==
    IF c.kind \in {"UrlRegex", "HeaderRegex", "BodyRegex"} THEN {c.s} ELSE {}

\* The pattern an action compiles, if any.
ActionPattern(a) ==
    IF a.kind \in {"RegexReplaceBody", "RegexReplaceHeader"} THEN {a.a} ELSE {}

\* get_regex: what the cache holds after the patterns in ps were asked for.
CacheAfter(cache, ps) == cache \cup {p \in ps : RegexCompiles(p)}

\* matches_request
MatchesRequest(rule, url, h, body) ==
    LET c == rule.condition
    IN  CASE c.kind = "UrlContains" -> Contains(url, c.s)
          [] c.kind = "UrlRegex" -> RegexCompiles(c.s) /\ RegexIsMatch(c.s, url)
          [] c.kind = "HeaderContains" ->
               HeaderGetStr(h, c.k) /\ Contains(h[HeaderNameFromBytes(c.k)], c.s)
          [] c.kind = "HeaderRegex" ->
               /\ RegexCompiles(c.s)
               /\ HeaderGetStr(h, c.k)
               /\ RegexIsMatch(c.s, h[HeaderNameFromBytes(c.k)])
          [] c.kind = "BodyContains" -> Contains(FromUtf8Lossy(body), c.s)
          [] c.kind = "BodyRegex" ->
               RegexCompiles(c.s) /\ RegexIsMatch(c.s, FromUtf8Lossy(body))

\* A matches_response that lets every URL condition match.
MatchesUrlInResponse(rule, h, body) == rule.condition.kind \in {"UrlContains", "UrlRegex"}

\* matches_response
MatchesResponse(rule, h, body) ==
    LET c == rule.condition
    IN  CASE c.kind = "UrlContains" -> FALSE
          [] c.kind = "UrlRegex" -> FALSE
          [] c.kind = "HeaderContains" ->
               HeaderGetStr(h, c.k) /\ Contains(h[HeaderNameFromBytes(c.k)], c.s)
          [] c.kind = "HeaderRegex" ->
               /\ RegexCompiles(c.s)
               /\ HeaderGetStr(h, c.k)
               /\ RegexIsMatch(c.s, h[HeaderNameFromBytes(c.k)])
          [] c.kind = "BodyContains" -> Contains(FromUtf8Lossy(body), c.s)
          [] c.kind = "BodyRegex" ->
               RegexCompiles(c.s) /\ RegexIsMatch(c.s, FromUtf8Lossy(body))

\* execute_action, "Update Content-Length if present".
KeepContentLength(h, body) == h

UpdateContentLength(h, body) ==
    IF ContainsKey(h, CONTENT_LENGTH)
    THEN HeaderInsert(h, CONTENT_LENGTH, UsizeToString(Len(body)))
    ELSE h

\* Whether execute_action assigns the body.
AssignsBody(a) ==
    \/ a.kind = "ReplaceBody"
    \/ a.kind = "RegexReplaceBody" /\ RegexCompiles(a.a)

\* An execute_action that does not look at whether the pattern compiled: the
\* body becomes the replacement.
ExecuteActionUnguarded(rule, h, body) ==
    IF rule.action.kind = "RegexReplaceBody"
    THEN [headers |-> h, body |-> IntoBytes(rule.action.b)]
    ELSE [headers |-> h, body |-> body]

\* execute_action: the headers and the body it leaves.
ExecuteAction(rule, h, body) ==
    LET a == rule.action
        name == HeaderNameFromBytes(a.k)
    IN  CASE a.kind = "ReplaceBody" ->
               LET nb == IntoBytes(StrReplace(FromUtf8Lossy(body), a.a, a.b))
               IN  [headers |-> UpdateContentLength(h, nb), body |-> nb]
          [] a.kind = "RegexReplaceBody" ->
               IF RegexCompiles(a.a)
               THEN LET nb == IntoBytes(RegexReplaceAll(a.a, FromUtf8Lossy(body), a.b))
                    IN  [headers |-> UpdateContentLength(h, nb), body |-> nb]
               ELSE [headers |-> h, body |-> body]
          [] a.kind = "SetHeader" ->
               IF name # "" /\ HeaderValueOk(a.a)
               THEN [headers |-> HeaderInsert(h, name, a.a), body |-> body]
               ELSE [headers |-> h, body |-> body]
          [] a.kind = "RegexReplaceHeader" ->
               IF RegexCompiles(a.a) /\ HeaderGetStr(h, a.k)
                  /\ HeaderValueOk(RegexReplaceAll(a.a, h[name], a.b))
               THEN [headers |-> HeaderInsert(h, name, RegexReplaceAll(a.a, h[name], a.b)),
                     body |-> body]
               ELSE [headers |-> h, body |-> body]
          [] a.kind = "RemoveHeader" ->
               IF name # ""
               THEN [headers |-> HeaderRemove(h, name), body |-> body]
               ELSE [headers |-> h, body |-> body]

\* Whether the loop of a pass in direction dir skips the rule.
Skipped(rule, dir) == ~rule.active \/ rule.rule_type # dir

\* The condition of a visited rule, in the direction of the pass.
Matches(rule, dir, url, h, body) ==
    IF dir = "Request" THEN MatchesRequest(rule, url, h, body)
    ELSE MatchesResponse(rule, h, body)

\* apply_request_rules / apply_response_rules as a whole: the loop over the
\* rules from index i on.
RECURSIVE ApplyRulesFrom(_, _, _, _, _, _)
ApplyRulesFrom(rs, i, dir, url, h, body) ==
    IF i > Len(rs) THEN [headers |-> h, body |-> body]
    ELSE IF ~Skipped(rs[i], dir) /\ Matches(rs[i], dir, url, h, body)
         THEN LET out == ExecuteAction(rs[i], h, body)
              IN  ApplyRulesFrom(rs, i + 1, dir, url, out.headers, out.body)
    ELSE ApplyRulesFrom(rs, i + 1, dir, url, h, body)

ApplyRules(rs, dir, url, h, body) == ApplyRulesFrom(rs, 1, dir, url, h, body)

\* The characters 'a' and 'b', the digits '2' and '9', and an invalid byte.
ChA == 97

ChB == 98

Ch2 == 50

Ch9 == 57

InvalidByte == 255

\* Rules a user can add.
RuleSet ==
    { Rule(TRUE, "Request", Cond("BodyContains", "", <<ChA>>),
           Act("ReplaceBody", "", <<ChA>>, <<ChB, ChB>>)),
      Rule(TRUE, "Request", Cond("BodyContains", "", <<ChB, ChB>>),
           Act("SetHeader", "X-A", <<ChB>>, <<>>)),
      Rule(FALSE, "Request", Cond("UrlContains", "", <<ChA>>),
           Act("SetHeader", "x-a", <<ChA>>, <<>>)),
      Rule(TRUE, "Response", Cond("BodyContains", "", <<ChA>>),
           Act("ReplaceBody", "", <<ChA>>, <<>>)),
      Rule(TRUE, "Request", Cond("HeaderContains", "x-a", <<ChB>>),
           Act("RegexReplaceBody", "", <<ChB, DOT>>, <<ChA>>)),
      Rule(TRUE, "Request", Cond("BodyRegex", "", <<LPAREN>>),
           Act("ReplaceBody", "", <<ChB>>, <<>>)),
      Rule(TRUE, "Request", Cond("UrlContains", "", <<ChA>>),
           Act("RegexReplaceBody", "", <<LPAREN, ChA>>, <<ChB>>)),
      Rule(TRUE, "Request", Cond("UrlRegex", "", <<DOT>>),
           Act("RemoveHeader", "Content-Length", <<>>, <<>>)),
      Rule(TRUE, "Request", Cond("HeaderRegex", "content-length", <<Ch2>>),
           Act("SetHeader", "Content-Length", <<Ch9>>, <<>>)),
      Rule(TRUE, "Response", Cond("UrlContains", "", <<ChA>>),
           Act("SetHeader", "X-A", <<ChA>>, <<>>)),
      Rule(TRUE, "Response", Cond("UrlRegex", "", <<DOT>>),
           Act("ReplaceBody", "", <<ChA>>, <<ChB>>)),
      Rule(TRUE, "Response", Cond("HeaderContains", "Content-Length", <<Ch2>>),
           Act("RegexReplaceBody", "", <<DOT>>, <<ChA, ChB>>)),
      Rule(TRUE, "Request", Cond("BodyRegex", "", <<ChB>>),
           Act("RegexReplaceHeader", "X-A", <<ChA>>, <<ChB>>)),
      Rule(TRUE, "Request", Cond("UrlContains", "", <<ChB>>),
           Act("SetHeader", "bad name", <<ChA>>, <<>>)) }

\* Bodies, URLs and headers a pass can be handed.
PassBodies == { <<>>, <<ChA, ChB>>, <<ChA, InvalidByte>> }

PassUrls == { <<ChA>>, <<ChB>> }

PassHeaders(body) ==
    { <<>>,
      [n \in {CONTENT_LENGTH} |-> UsizeToString(Len(body))],
      [n \in {CONTENT_LENGTH, "x-a"} |->
          IF n = CONTENT_LENGTH THEN UsizeToString(Len(body)) ELSE <<ChA>>] }

\* add_rule
AddRule ==
    /\ passPc = "idle"
    /\ Len(rules) < MaxRules
    /\ \E r \in RuleSet : rules' = Append(rules, r)
    /\ UNCHANGED <<regex_cache, passPc, passIdx, passUrl, passHeaders, passBody,
                   passInput, applied, bodyRewritten, hadLength>>
    /\ UNCHANGED nonRuleVars

\* clear_rules
ClearRules ==
    /\ passPc = "idle"
    /\ rules # <<>>
    /\ rules' = <<>>
    /\ regex_cache' = {}
    /\ UNCHANGED <<passPc, passIdx, passUrl, passHeaders, passBody, passInput,
                   applied, bodyRewritten, hadLength>>
    /\ UNCHANGED nonRuleVars

\* apply_request_rules / apply_response_rules: entry, taking the read guard.
BeginPass ==
    /\ passPc = "idle"
    /\ \E dir \in {"Request", "Response"}, url \in PassUrls, body \in PassBodies :
         \E h \in PassHeaders(body) :
            /\ passPc' = dir
            /\ passUrl' = url
            /\ passHeaders' = h
            /\ passBody' = body
            /\ passInput' = [headers |-> h, body |-> body]
    /\ passIdx' = 1
    /\ applied' = <<>>
    /\ bodyRewritten' = FALSE
    /\ hadLength' = FALSE
    /\ UNCHANGED <<rules, regex_cache>>
    /\ UNCHANGED nonRuleVars

\* The state the condition of the visited rule is evaluated against.
ConditionStateSnapshot == passInput

ConditionState == [headers |-> passHeaders, body |-> passBody]

\* One iteration of `for rule in rules.iter()`.
RuleStep ==
    /\ passPc # "idle"
    /\ passIdx <= Len(rules)
    /\ LET rule == rules[passIdx]
           cs == ConditionState
           hit == ~Skipped(rule, passPc)
                    /\ Matches(rule, passPc, passUrl, cs.headers, cs.body)
           out == IF hit THEN ExecuteAction(rule, passHeaders, passBody)
                  ELSE [headers |-> passHeaders, body |-> passBody]
       IN  /\ passHeaders' = out.headers
           /\ passBody' = out.body
           /\ applied' = IF hit THEN Append(applied, passIdx) ELSE applied
           /\ bodyRewritten' = (hit /\ AssignsBody(rule.action))
           /\ hadLength' = ContainsKey(passHeaders, CONTENT_LENGTH)
           /\ regex_cache' =
                IF Skipped(rule, passPc) THEN regex_cache
                ELSE CacheAfter(regex_cache,
                        (IF passPc = "Response"
                            /\ rule.condition.kind = "UrlRegex"
                         THEN {} ELSE ConditionPattern(rule.condition))
                        \cup (IF hit THEN ActionPattern(rule.action) ELSE {}))
    /\ passIdx' = passIdx + 1
    /\ UNCHANGED <<rules, passPc, passUrl, passInput>>
    /\ UNCHANGED nonRuleVars

\* The loop is over: the pass returns, its locals go and the read guard is
\* released.
EndPass ==
    /\ passPc # "idle"
    /\ passIdx > Len(rules)
    /\ passPc' = "idle"
    /\ passIdx' = 0
    /\ passUrl' = <<>>
    /\ passHeaders' = <<>>
    /\ passBody' = <<>>
    /\ passInput' = [headers |-> <<>>, body |-> <<>>]
    /\ applied' = <<>>
    /\ bodyRewritten' = FALSE
    /\ hadLength' = FALSE
    /\ UNCHANGED <<rules, regex_cache>>
    /\ UNCHANGED nonRuleVars

InitRules ==
    /\ rules = <<>>
    /\ regex_cache = {}
    /\ passPc = "idle"
    /\ passIdx = 0
    /\ passUrl = <<>>
    /\ passHeaders = <<>>
    /\ passBody = <<>>
    /\ passInput = [headers |-> <<>>, body |-> <<>>]
    /\ applied = <<>>
    /\ bodyRewritten = FALSE
    /\ hadLength = FALSE

NextRules ==
    \/ AddRule
    \/ ClearRules
    \/ BeginPass
    \/ RuleStep
    \/ EndPass

\* ------------------------------------------------------------------------
\* C1: every id returned by push is unique and strictly greater than every
\* id handed out before it; ids start at 1, are never reused after eviction
\* or clear(), and no two concurrent pushes hold the same id.
\* ------------------------------------------------------------------------
C1_IdsUniqueIncreasing ==
    /\ \A i, j \in 1..Len(handed) : i < j => handed[i] < handed[j]
    /\ Len(handed) > 0 => handed[1] = 1
    /\ \A i \in BagToSet(returned) : CopiesIn(i, returned) = 1 /\ i \in Range(handed)
    /\ \A p, q \in Pushers :
         (p # q /\ pushPc[p] # "idle" /\ pushPc[q] # "idle")
            => pushEntry[p].id # pushEntry[q].id
    /\ \A i \in 1..Len(entries) : \A j \in 1..Len(entries) :
         i # j => entries[i].id # entries[j].id

\* Ids handed out after an eviction and after a clear, while two pushes overlap.
C1_Witness ==
    /\ clears = 1
    /\ Len(inserted) > capacity
    /\ BagCardinality(returned) >= 1
    /\ \E p, q \in Pushers : p # q /\ pushPc[p] # "idle" /\ pushPc[q] # "idle"

\* ------------------------------------------------------------------------
\* C2: for a ring of capacity C, after N pushes and no clear, len() is
\* min(N, C) and the ring holds exactly the most recently pushed entries,
\* newest insertion first; len() never exceeds C.
\* ------------------------------------------------------------------------
C2_RingKeepsMostRecent ==
    /\ Len(entries) <= capacity
    /\ clears = 0 =>
         /\ Len(entries) = Min(Len(inserted), capacity)
         /\ [i \in 1..Len(entries) |-> entries[i].id]
              = Reverse(LastN(inserted, Min(Len(inserted), capacity)))

\* More pushes than the capacity, inserted out of id order, with no clear.
C2_Witness ==
    /\ clears = 0
    /\ Len(inserted) > capacity
    /\ Len(entries) = capacity
    /\ \E i \in 1..(Len(inserted) - 1) : inserted[i] > inserted[i + 1]

\* ------------------------------------------------------------------------
\* C4: a pass visits the rules in insertion order, applies only the active
\* rules of its direction, and evaluates each condition against the headers
\* and body as the earlier rules of the same pass left them.
\* ------------------------------------------------------------------------
\* The headers and body after the first k rules, each condition evaluated on
\* what the rules before it produced.
RECURSIVE C4_After(_)
C4_After(k) ==
    IF k = 0 THEN passInput
    ELSE LET prev == C4_After(k - 1)
             r == rules[k]
         IN  IF r.active /\ r.rule_type = passPc
                /\ Matches(r, passPc, passUrl, prev.headers, prev.body)
             THEN ExecuteAction(r, prev.headers, prev.body)
             ELSE prev

C4_Executed(k) ==
    LET prev == C4_After(k - 1)
        r == rules[k]
    IN  r.active /\ r.rule_type = passPc
           /\ Matches(r, passPc, passUrl, prev.headers, prev.body)

C4_RulesSeeEarlierMutations ==
    passPc # "idle" =>
        /\ [headers |-> passHeaders, body |-> passBody] = C4_After(passIdx - 1)
        /\ \A i, j \in 1..Len(applied) : i < j => applied[i] < applied[j]
        /\ Range(applied) = {k \in 1..(passIdx - 1) : C4_Executed(k)}

\* A finished pass in which the second rule ran only because the first rule
\* changed what its condition reads.
C4_Witness ==
    /\ passPc # "idle"
    /\ passIdx > Len(rules)
    /\ applied = <<1, 2>>
    /\ ~Matches(rules[2], passPc, passUrl, passInput.headers, passInput.body)

\* ------------------------------------------------------------------------
\* C5: after a rule action that rewrites the body (ReplaceBody, or
\* RegexReplaceBody with a pattern that compiles), a Content-Length header
\* that was present before the action holds the byte length of the new body;
\* this holds after every rule of a pass.
\* ------------------------------------------------------------------------
C5_ContentLengthFollowsBody ==
    (bodyRewritten /\ hadLength) =>
        /\ ContainsKey(passHeaders, CONTENT_LENGTH)
        /\ passHeaders[CONTENT_LENGTH] = UsizeToString(Len(passBody))

\* The second rule of a pass rewrote the body to another length while
\* Content-Length was present.
C5_Witness ==
    /\ bodyRewritten
    /\ hadLength
    /\ passIdx = 3
    /\ Len(applied) = 2
    /\ Len(passBody) # Len(passInput.body)

\* ------------------------------------------------------------------------
\* PluginManager and PluginRuntime (core/src/plugin).  A loaded plugin is
\* its configuration; what a hook invocation of a plugin does is its outcome.
\* ------------------------------------------------------------------------
\* Plugin names, as strings: "a", "ab" and "b".
PluginNames == {<<ChA>>, <<ChA, ChB>>, <<ChB>>}

\* Ord for String: byte-wise lexicographic.
RECURSIVE StrLess(_, _)
StrLess(a, b) ==
    IF b = <<>> THEN FALSE
    ELSE IF a = <<>> THEN TRUE
    ELSE IF Head(a) # Head(b) THEN Head(a) < Head(b)
    ELSE StrLess(Tail(a), Tail(b))

PluginConfigs == [name : PluginNames, enabled : BOOLEAN]

\* The orders in which HashMap::values() may yield the plugins in `m`.
ValueOrders(m) ==
    {s \in [1..Cardinality(m) -> m] : \A i, j \in 1..Cardinality(m) : i # j => s[i] # s[j]}

\* sort_by_key(|p| p.name()): a stable sort, here by insertion.
RECURSIVE InsertByName(_, _)
InsertByName(sorted, p) ==
    IF sorted = <<>> THEN <<p>>
    ELSE IF StrLess(p.name, Head(sorted).name) THEN <<p>> \o sorted
    ELSE <<Head(sorted)>> \o InsertByName(Tail(sorted), p)

KeepOrder(list) == list

RECURSIVE SortByName(_)
SortByName(list) ==
    IF list = <<>> THEN <<>>
    ELSE InsertByName(SortByName(SubSeq(list, 1, Len(list) - 1)), list[Len(list)])

X_SEEN == "X-Seen"

\* HookContext: method, url and the headers (the fields the hooks are given
\* or can write through the host calls).
HookContext(method, url, headers) == [method |-> method, url |-> url, headers |-> headers]

NoContext == HookContext("", <<>>, <<>>)

\* What a plugin does when its hook runs: it reads X-Seen with
\* host_get_header and writes it back with its own name appended
\* (host_set_header: headers.insert).
Written(ctx, name) ==
    LET old == IF ContainsKey(ctx.headers, X_SEEN) THEN ctx.headers[X_SEEN] ELSE <<>>
    IN  [ctx EXCEPT !.headers = HeaderInsert(ctx.headers, X_SEEN, old \o name)]

\* The outcomes of one invocation: the module does not instantiate; it has
\* no hook function of type () -> i32; the hook returns an i32 after its
\* writes; it traps (a trap proper, or out of fuel) after its writes.  slow
\* tells that the invocation took longer than max_execution_time.
Outcomes ==
    {[kind |-> "instantiate_err", ret |-> 0, slow |-> FALSE]}
    \cup [kind : {"no_export", "trap"}, ret : {0}, slow : BOOLEAN]
    \cup [kind : {"returned"}, ret : {0, 1}, slow : BOOLEAN]

\* HookResult::unmodified, HookResult::modified
Unmodified == [modified |-> FALSE, context |-> NoContext, has_context |-> FALSE,
               should_continue |-> TRUE]

Modified(ctx) == [modified |-> TRUE, context |-> ctx, has_context |-> TRUE,
                  should_continue |-> TRUE]

\* call_hook: ok is FALSE for Err.  A hook that returned gives the shared
\* context back as modified (line 98-106), whatever i32 it returned and
\* however long it took; the time limit is looked at on the other paths
\* only (line 118-125).
CallHook(p, o, context) ==
    IF o.kind = "instantiate_err" THEN [ok |-> FALSE, result |-> Unmodified]
    ELSE IF o.kind = "returned"
    THEN [ok |-> TRUE, result |-> Modified(Written(context, p.name))]
    ELSE IF o.slow THEN [ok |-> FALSE, result |-> Unmodified]
    ELSE [ok |-> TRUE, result |-> Unmodified]

\* execute_hook, line 165-205: the loop over the sorted plugins.  calls
\* lists the invocations made: the plugin, the context it was handed and
\* its outcome.
RECURSIVE RunHooks(_, _, _, _)
RunHooks(list, outcome, context, calls) ==
    IF list = <<>> THEN [context |-> context, calls |-> calls]
    ELSE LET p == Head(list)
             r == CallHook(p, outcome[p.name], context)
             made == Append(calls, [name |-> p.name, seen |-> context,
                                    outcome |-> outcome[p.name]])
         IN  IF ~p.enabled THEN RunHooks(Tail(list), outcome, context, calls)
             ELSE IF ~r.ok THEN RunHooks(Tail(list), outcome, context, made)
             ELSE IF ~r.result.should_continue
             THEN [context |-> context, calls |-> made]
             ELSE IF r.result.modified /\ r.result.has_context
             THEN RunHooks(Tail(list), outcome, r.result.context, made)
             ELSE RunHooks(Tail(list), outcome, context, made)

\* execute_hook, with `order` the order values() yields the plugins in.
ExecuteHook(order, outcome, context) ==
    IF order = <<>> THEN [context |-> context, calls |-> <<>>]
    ELSE RunHooks(SortByName(order), outcome, context, <<>>)

\* load_plugin, line 100-107: plugins.insert(name, runtime), under the write
\* lock, which waits for an execute_hook that holds the read lock.
LoadPlugin(cfg) ==
    /\ hookPc = "idle"
    /\ Cardinality({p \in plugins : p.name # cfg.name}) < MaxPlugins
    /\ plugins' = {p \in plugins : p.name # cfg.name} \cup {cfg}
    /\ UNCHANGED <<hookPc, hook_order, hook_input, hook_calls, hook_output, reload>>
    /\ UNCHANGED nonPluginVars

\* unload_plugin
UnloadPlugin(name) ==
    /\ hookPc = "idle"
    /\ \E p \in plugins : p.name = name
    /\ plugins' = {p \in plugins : p.name # name}
    /\ UNCHANGED <<hookPc, hook_order, hook_input, hook_calls, hook_output, reload>>
    /\ UNCHANGED nonPluginVars

\* No reload_plugin call is under way.
NoReload == [pc |-> "idle", name |-> <<>>, had |-> FALSE, old_enabled |-> FALSE,
             cfg |-> [name |-> <<>>, enabled |-> FALSE], ret |-> "none"]

\* reload_plugin, lines 132-142: the plugin is in the configuration (cfg is
\* its entry there); unload_plugin(name).ok() removes the loaded plugin, if
\* there is one, under the write lock and releases the lock.
ReloadUnload(name) ==
    /\ hookPc = "idle"
    /\ reload.pc = "idle"
    /\ \E cfg \in PluginConfigs :
         /\ cfg.name = name
         /\ reload' = [pc |-> "load", name |-> name,
                       had |-> \E p \in plugins : p.name = name,
                       old_enabled |-> \E p \in plugins : p.name = name /\ p.enabled,
                       cfg |-> cfg, ret |-> "none"]
    /\ plugins' = {p \in plugins : p.name # name}
    /\ UNCHANGED <<hookPc, hook_order, hook_input, hook_calls, hook_output>>
    /\ UNCHANGED nonPluginVars

\* reload_plugin, lines 144-147: load_plugin(plugin_config) loaded the module
\* and inserted it; Ok.
ReloadLoadOk ==
    /\ hookPc = "idle"
    /\ reload.pc = "load"
    /\ Cardinality(plugins) < MaxPlugins
    /\ plugins' = {p \in plugins : p.name # reload.name} \cup {reload.cfg}
    /\ reload' = [reload EXCEPT !.pc = "idle", !.ret = "Ok"]
    /\ UNCHANGED <<hookPc, hook_order, hook_input, hook_calls, hook_output>>
    /\ UNCHANGED nonPluginVars

\* reload_plugin, line 145: load_plugin returned Err (the file is missing,
\* lines 86-91, or PluginRuntime::load or initialize failed, lines 98-101);
\* `?` returns it.
ReloadLoadErr ==
    /\ reload.pc = "load"
    /\ reload' = [reload EXCEPT !.pc = "idle", !.ret = "Err"]
    /\ UNCHANGED <<plugins, hookPc, hook_order, hook_input, hook_calls, hook_output>>
    /\ UNCHANGED nonPluginVars

\* The contexts a hook is executed on.
HookInputs ==
    { HookContext("GET", <<ChA>>, h) : h \in {<<>>, [n \in {X_SEEN} |-> <<49>>]} }

\* execute_hook, from the call to its return.
Execute ==
    /\ hookPc = "idle"
    /\ \E order \in ValueOrders(plugins),
          outcome \in [{p.name : p \in plugins} -> Outcomes],
          context \in HookInputs :
         LET out == ExecuteHook(order, outcome, context)
         IN  /\ hook_order' = order
             /\ hook_input' = context
             /\ hook_calls' = out.calls
             /\ hook_output' = out.context
    /\ hookPc' = "returned"
    /\ UNCHANGED <<plugins, reload>>
    /\ UNCHANGED nonPluginVars

\* The caller has taken the context execute_hook returned.
HookDone ==
    /\ hookPc = "returned"
    /\ hookPc' = "idle"
    /\ hook_order' = <<>>
    /\ hook_input' = NoContext
    /\ hook_calls' = <<>>
    /\ hook_output' = NoContext
    /\ UNCHANGED <<plugins, reload>>
    /\ UNCHANGED nonPluginVars

InitPlugins ==
    /\ plugins = {}
    /\ hookPc = "idle"
    /\ hook_order = <<>>
    /\ hook_input = NoContext
    /\ hook_calls = <<>>
    /\ hook_output = NoContext
    /\ reload = NoReload

NextPlugins ==
    \/ \E cfg \in PluginConfigs : LoadPlugin(cfg)
    \/ \E name \in PluginNames : UnloadPlugin(name)
    \/ Execute
    \/ HookDone
    \/ \E name \in PluginNames : ReloadUnload(name)
    \/ ReloadLoadOk
    \/ ReloadLoadErr

\* ------------------------------------------------------------------------
\* ScopeManager
\* ------------------------------------------------------------------------
AlwaysInScope(cfg, url) == TRUE

\* An is_in_scope that tries the includes before the excludes.
IncludeWins(cfg, url) ==
    IF \E i \in 1..Len(cfg.includes) : Contains(url, cfg.includes[i]) THEN TRUE
    ELSE IF \E i \in 1..Len(cfg.excludes) : Contains(url, cfg.excludes[i]) THEN FALSE
    ELSE cfg.includes = <<>>

\* is_in_scope: excludes first, then an empty include list, then includes.
IsInScope(cfg, url) ==
    IF \E i \in 1..Len(cfg.excludes) : Contains(url, cfg.excludes[i]) THEN FALSE
    ELSE IF cfg.includes = <<>> THEN TRUE
    ELSE \E i \in 1..Len(cfg.includes) : Contains(url, cfg.includes[i])

\* Scope configurations: one with an include, one with an exclude.
ScopeConfigs ==
    { [includes |-> << <<ChA>> >>, excludes |-> <<>>],
      [includes |-> <<>>, excludes |-> << <<ChB>> >>] }

\* ------------------------------------------------------------------------
\* ProxyServer: URIs, requests and responses
\* ------------------------------------------------------------------------
Conns == {"c1", "c2"}

\* "http", "https", "://" and "/".
HTTP == <<104, 116, 116, 112>>

HTTPS == <<104, 116, 116, 112, 115>>

SchemeSep == <<58, 47, 47>>

RootPath == <<47>>

\* The hosts clients name: "a" and "b".
Hosts == { <<ChA>>, <<ChB>> }

\* http::Uri: an absent scheme or authority is the empty string.
Uri(scheme, authority, path) ==
    [scheme |-> scheme, authority |-> authority, path |-> path]

\* Uri::to_string
UriToString(u) ==
    (IF u.scheme = <<>> THEN <<>> ELSE u.scheme \o SchemeSep) \o u.authority \o u.path

HOST == "host"

\* host_from_headers: the empty string stands for None.
HostFromHeaders(h) ==
    IF ContainsKey(h, HOST) /\ HeaderValueOk(h[HOST]) THEN h[HOST] ELSE <<>>

\* normalize_uri: ok is FALSE for Err(InvalidRequest("missing host header")).
NormalizeUri(uri, h) ==
    IF uri.scheme # <<>> /\ uri.authority # <<>> THEN [ok |-> TRUE, uri |-> uri]
    ELSE LET authority == IF uri.authority # <<>> THEN uri.authority
                          ELSE HostFromHeaders(h)
             path == IF uri.path = <<>> THEN RootPath ELSE uri.path
         IN  IF authority = <<>> THEN [ok |-> FALSE, uri |-> uri]
             ELSE [ok |-> TRUE, uri |-> Uri(HTTP, authority, path)]

Req(method, uri, h, body) ==
    [method |-> method, uri |-> uri, headers |-> h, body |-> body]

Resp(status, h, body) == [status |-> status, headers |-> h, body |-> body]

NoReq == Req("", Uri(<<>>, <<>>, <<>>), <<>>, <<>>)

NoResp == Resp(0, <<>>, <<>>)

BAD_GATEWAY == 502

OK == 200

\* error_response: 502 with the text "Proxy error" in the body.
ErrorResponse ==
    Resp(BAD_GATEWAY, <<>>, <<80, 114, 111, 120, 121, 32, 101, 114, 114, 111, 114>>)

\* Requests a client sends on the forward path: absolute-form, one of them
\* with a header whose value is not ASCII, or origin-form with or without a
\* Host header.
ForwardRequests ==
    { Req("GET", Uri(HTTP, a, RootPath), <<>>, <<ChA>>) : a \in Hosts }
    \cup { Req("GET", Uri(HTTPS, <<ChA>>, RootPath), <<>>, <<ChA>>) }
    \cup { Req("GET", Uri(HTTP, <<ChA>>, RootPath), [n \in {"x-b"} |-> <<InvalidByte>>],
               <<ChA>>) }
    \cup { Req("GET", Uri(<<>>, <<>>, RootPath), h, <<ChA>>) :
              h \in {<<>>, [n \in {HOST} |-> <<ChB>>]} }

\* Requests a client sends inside an intercepted tunnel: origin-form with a
\* Host header (HTTP/1.1), or with the scheme and authority of an HTTP/2
\* request.
TunnelRequests ==
    { Req("GET", Uri(<<>>, <<>>, RootPath), [n \in {HOST} |-> <<ChA>>], <<ChA>>),
      Req("GET", Uri(HTTPS, <<ChA>>, RootPath), <<>>, <<ChA>>) }

\* Targets of a CONNECT: an authority, or none.
ConnectRequests ==
    { Req("CONNECT", Uri(<<>>, a, <<>>), <<>>, <<>>) : a \in {<<ChB>>, <<>>} }

\* The response the upstream server gives.
UpstreamResponses == { Resp(OK, [n \in {CONTENT_LENGTH} |-> <<49>>], <<ChA>>) }

\* The fields of a connection slot nobody has connected on: the request being
\* served, what was sent upstream for it, what the upstream answered, what the
\* service returned, the number of responses written to the client with
\* the status of the last one, and the number of capture entries pushed for
\* the request being served.
FreeConn == [pc |-> "free", req |-> NoReq, fwd |-> NoReq, up |-> NoResp,
             resp |-> NoResp, written |-> 0, last |-> 0, hook |-> NoContext,
             captured |-> 0]

\* The OnRequest hook of the plugins the proxy runs with: it returns after
\* host_set_header("X-Seen", name).
SetsHeader == [kind |-> "returned", ret |-> 0, slow |-> FALSE]

NoTunnel == [state |-> "NONE", from |-> "NONE", err |-> FALSE]

\* forward_request, line 258: the tls flag of the record.
SchemeIsHttps(uri) == uri.scheme = HTTPS

\* forward_request, lines 274-278 and 306-310: a header value is recorded as
\* v.to_str().unwrap_or_default().
ToStrOrDefault(v) == IF HeaderValueOk(v) THEN v ELSE <<>>

CapturedHeaders(h) == [n \in DOMAIN h |-> ToStrOrDefault(h[n])]

\* capture.push(record, response) as the proxy calls it, the record being
\* CapturedRequest::new(method, url, tls) with its headers and body; via
\* tells how the proxy received the request.
CapturePush(method, url, headers, tls_flag, via, body, response) ==
    /\ counter' = FetchAdd(counter)
    /\ entries' = RingPush(entries, [id |-> counter, url |-> url, method |-> method,
                                     headers |-> headers, tls |-> tls_flag, via |-> via,
                                     body |-> body, response |-> response],
                           capacity)
    /\ notifier' = Append(notifier, counter)
    /\ rows' = IF storage THEN rows \cup {counter} ELSE rows
    /\ handed' = Append(handed, counter)
    /\ inserted' = Append(inserted, counter)
    /\ returned' = returned (+) SetToBag({counter})
    /\ UNCHANGED <<capacity, storage, pushPc, pushEntry, clearPc, clears,
                   before_clear, clear_err, insert_err>>

\* ------------------------------------------------------------------------
\* ProxyServer::run and the per-connection service
\* ------------------------------------------------------------------------
\* run, line 75 and 90: accept returned a stream; the connection task is
\* spawned.
Accept(c) ==
    /\ runPc = "accepting"
    /\ conn[c].pc = "free"
    /\ conn' = [conn EXCEPT ![c].pc = "open"]
    /\ UNCHANGED <<scope, tls, runPc, REQUEST_COUNTER, tun>>
    /\ UNCHANGED <<captureVars, nonProxyVars>>

\* run, line 75: accept returned Err, which `?` returns from run.
AcceptErr ==
    /\ runPc = "accepting"
    /\ runPc' = "returned"
    /\ UNCHANGED <<scope, tls, REQUEST_COUNTER, conn, tun>>
    /\ UNCHANGED <<captureVars, nonProxyVars>>

\* The service on a request that is not a CONNECT: forward_request up to the
\* await of client.request.
RecvForward(c) ==
    /\ conn[c].pc = "open"
    /\ REQUEST_COUNTER <= MaxRequests
    /\ REQUEST_COUNTER' = REQUEST_COUNTER + 1
    /\ \E r \in ForwardRequests, order \in ValueOrders(plugins) :
         LET n == NormalizeUri(r.uri, r.headers)
             url == UriToString(n.uri)
             \* line 229-236: the hook runs on {method, url}; `let _ =` drops
             \* the context it returns.
             hooked == ExecuteHook(order, [name \in PluginNames |-> SetsHeader],
                                   HookContext(r.method, url, <<>>))
             out == ApplyRules(rules, "Request", url, r.headers, r.body)
         IN  conn' = [conn EXCEPT ![c] =
                IF ~n.ok
                THEN [@ EXCEPT !.pc = "reply", !.req = r, !.resp = ErrorResponse]
                ELSE IF ~IsInScope(scope, url)
                THEN [@ EXCEPT !.pc = "oos_upstream", !.req = r,
                               !.hook = hooked.context,
                               !.fwd = Req(r.method, n.uri, r.headers, r.body)]
                ELSE [@ EXCEPT !.pc = "upstream", !.req = r,
                               !.hook = hooked.context,
                               !.fwd = Req(r.method, n.uri, out.headers, out.body)]]
    /\ UNCHANGED <<scope, tls, runPc, tun>>
    /\ UNCHANGED <<captureVars, nonProxyVars>>

\* forward_request from the upstream response on: the out-of-scope branch
\* returns it as it is; the in-scope branch applies the response rules and
\* pushes the capture entry.
UpstreamResponse(c) ==
    /\ conn[c].pc \in {"oos_upstream", "upstream"}
    /\ \E u \in UpstreamResponses :
         LET out == ApplyRules(rules, "Response", <<>>, u.headers, u.body)
         IN  IF conn[c].pc = "oos_upstream"
             THEN /\ conn' = [conn EXCEPT ![c].pc = "reply", ![c].up = u, ![c].resp = u]
                  /\ UNCHANGED captureVars
             ELSE /\ conn' = [conn EXCEPT ![c].pc = "reply", ![c].up = u,
                                          ![c].resp = Resp(u.status, out.headers, out.body),
                                          ![c].captured = @ + 1]
                  /\ CapturePush(conn[c].fwd.method, UriToString(conn[c].fwd.uri),
                                 CapturedHeaders(conn[c].fwd.headers),
                                 SchemeIsHttps(conn[c].fwd.uri), "cleartext",
                                 conn[c].fwd.body,
                                 Resp(u.status, CapturedHeaders(out.headers), out.body))
    /\ UNCHANGED <<scope, tls, runPc, REQUEST_COUNTER, tun>>
    /\ UNCHANGED nonProxyVars

\* client.request or the collection of the response body failed: `?` returns
\* the error, which the service turns into error_response.
UpstreamError(c) ==
    /\ conn[c].pc \in {"oos_upstream", "upstream"}
    /\ conn' = [conn EXCEPT ![c].pc = "reply", ![c].resp = ErrorResponse]
    /\ UNCHANGED <<scope, tls, runPc, REQUEST_COUNTER, tun>>
    /\ UNCHANGED <<captureVars, nonProxyVars>>

\* handle_connect: without an authority it returns Err; otherwise it pushes
\* the CONNECT entry, spawns the child task and returns 200.
RecvConnect(c) ==
    /\ conn[c].pc = "open"
    /\ REQUEST_COUNTER <= MaxRequests
    /\ REQUEST_COUNTER' = REQUEST_COUNTER + 1
    /\ \E r \in ConnectRequests :
         IF r.uri.authority = <<>>
         THEN /\ conn' = [conn EXCEPT ![c].pc = "reply", ![c].req = r,
                                      ![c].resp = ErrorResponse]
              /\ UNCHANGED <<captureVars, tun>>
         ELSE /\ CapturePush("CONNECT", HTTPS \o SchemeSep \o r.uri.authority, <<>>, TRUE,
                             "connect", <<>>, NoResp)
              /\ tun' = [tun EXCEPT ![c] = [state |-> "RECEIVED", from |-> "NONE",
                                            err |-> FALSE]]
              /\ conn' = [conn EXCEPT ![c].pc = "reply", ![c].req = r,
                                      ![c].resp = Resp(OK, <<>>, <<>>),
                                      ![c].captured = @ + 1]
    /\ UNCHANGED <<scope, tls, runPc>>
    /\ UNCHANGED nonProxyVars

\* serve_connection writes the response the service returned.  After the 200
\* of a CONNECT the connection is handed to the upgrade.
WriteResponse(c) ==
    /\ conn[c].pc = "reply"
    /\ conn' = [conn EXCEPT ![c] =
          [FreeConn EXCEPT !.pc = IF tun[c].state = "RECEIVED" THEN "upgraded" ELSE "open",
                           !.written = conn[c].written + 1,
                           !.last = conn[c].resp.status]]
    /\ UNCHANGED <<scope, tls, runPc, REQUEST_COUNTER, tun>>
    /\ UNCHANGED <<captureVars, nonProxyVars>>

\* run, line 148-153: serve_connection returned Err; the error is logged and
\* the connection task ends, dropping the request it was serving.
ServeError(c) ==
    /\ conn[c].pc \in {"open", "oos_upstream", "upstream", "reply"}
    /\ conn' = [conn EXCEPT ![c] = [FreeConn EXCEPT !.pc = "closed",
                                                    !.written = conn[c].written,
                                                    !.last = conn[c].last]]
    /\ UNCHANGED <<scope, tls, runPc, REQUEST_COUNTER, tun>>
    /\ UNCHANGED <<captureVars, nonProxyVars>>

\* run, line 148-157: the client closed the connection; serve_connection
\* returned Ok.
CloseConn(c) ==
    /\ conn[c].pc = "open"
    /\ conn' = [conn EXCEPT ![c].pc = "closed"]
    /\ UNCHANGED <<scope, tls, runPc, REQUEST_COUNTER, tun>>
    /\ UNCHANGED <<captureVars, nonProxyVars>>

\* ------------------------------------------------------------------------
\* The child task of a CONNECT: handle_tls_connect or tunnel
\* ------------------------------------------------------------------------
TunnelTo(c, state, err) ==
    /\ tun' = [tun EXCEPT ![c] = [state |-> state, from |-> tun[c].state, err |-> err]]
    /\ UNCHANGED <<scope, tls, runPc, REQUEST_COUNTER, conn>>
    /\ UNCHANGED <<captureVars, nonProxyVars>>

\* hyper::upgrade::on resolves once the connection has written the response
\* and given up the stream.
UpgradeUnordered(c) == conn[c].pc \in {"reply", "upgraded"}

UpgradeReady(c) == conn[c].pc = "upgraded"

\* handle_tls_connect line 399, tunnel line 446: the upgrade succeeded.
UpgradeOk(c) ==
    /\ tun[c].state = "RECEIVED"
    /\ UpgradeReady(c)
    /\ TunnelTo(c, IF tls THEN "TLS_MITM_HANDSHAKE" ELSE "PLAIN_TUNNEL", FALSE)

\* The upgrade failed, or the connection went before the response was
\* written: `?` ends the child, whose error is logged.
UpgradeErr(c) ==
    /\ tun[c].state = "RECEIVED"
    /\ conn[c].pc \in {"upgraded", "closed"}
    /\ TunnelTo(c, "CLOSED", TRUE)

\* handle_tls_connect line 402-413: tls.acceptor.accept.
TlsAccept(c) ==
    /\ tun[c].state = "TLS_MITM_HANDSHAKE"
    /\ \/ TunnelTo(c, "STREAMING", FALSE)
       \/ TunnelTo(c, "CLOSED", TRUE)

\* tunnel line 448: TcpStream::connect.
TcpConnect(c) ==
    /\ tun[c].state = "PLAIN_TUNNEL"
    /\ \/ TunnelTo(c, "STREAMING", FALSE)
       \/ TunnelTo(c, "CLOSED", TRUE)

\* handle_tls_connect line 438-442, tunnel line 450: the inner server or the
\* copy ends, with or without an error.
StreamEnd(c) ==
    /\ tun[c].state = "STREAMING"
    /\ \E err \in BOOLEAN : TunnelTo(c, "CLOSED", err)

\* handle_tls_connect, lines 415-441: the inner service on a request
\* received inside the intercepted tunnel, handle_request and forward_request
\* as a whole.  An Err of the service ends serve_connection and the child.
TunnelRequest(c) ==
    /\ tun[c].state = "STREAMING"
    /\ tls
    /\ counter <= MaxRequests
    /\ \E r \in TunnelRequests, u \in UpstreamResponses, answered \in BOOLEAN :
         LET n == NormalizeUri(r.uri, r.headers)
             url == UriToString(n.uri)
             out == ApplyRules(rules, "Request", url, r.headers, r.body)
         IN  IF ~n.ok \/ ~answered
             THEN /\ tun' = [tun EXCEPT ![c] = [state |-> "CLOSED", from |-> tun[c].state,
                                                err |-> TRUE]]
                  /\ UNCHANGED captureVars
             ELSE IF ~IsInScope(scope, url)
             THEN UNCHANGED <<tun, captureVars>>
             ELSE /\ CapturePush(r.method, url, CapturedHeaders(out.headers),
                                 SchemeIsHttps(n.uri), "tunnel", out.body,
                                 LET back == ApplyRules(rules, "Response", <<>>,
                                                        u.headers, u.body)
                                 IN  Resp(u.status, CapturedHeaders(back.headers),
                                          back.body))
                  /\ UNCHANGED tun
    /\ UNCHANGED <<scope, tls, runPc, REQUEST_COUNTER, conn>>
    /\ UNCHANGED nonProxyVars

InitProxy ==
    /\ scope \in ScopeConfigs
    /\ tls \in BOOLEAN
    /\ runPc = "accepting"
    /\ REQUEST_COUNTER = 1
    /\ conn = [c \in Conns |-> FreeConn]
    /\ tun = [c \in Conns |-> NoTunnel]

NextProxy ==
    \/ \E c \in Conns : Accept(c)
    \/ AcceptErr
    \/ \E c \in Conns : RecvForward(c)
    \/ \E c \in Conns : UpstreamResponse(c)
    \/ \E c \in Conns : UpstreamError(c)
    \/ \E c \in Conns : RecvConnect(c)
    \/ \E c \in Conns : WriteResponse(c)
    \/ \E c \in Conns : ServeError(c)
    \/ \E c \in Conns : CloseConn(c)
    \/ \E c \in Conns : UpgradeOk(c)
    \/ \E c \in Conns : UpgradeErr(c)
    \/ \E c \in Conns : TlsAccept(c)
    \/ \E c \in Conns : TcpConnect(c)
    \/ \E c \in Conns : StreamEnd(c)
    \/ \E c \in Conns : TunnelRequest(c)

\* The progress the runtime and the peers give: a response the service
\* returned is written or the connection fails, and every await of the child
\* task completes or fails.
ReplyStep(c) == WriteResponse(c) \/ (conn[c].pc = "reply" /\ ServeError(c))

ChildStep(c) ==
    UpgradeOk(c) \/ UpgradeErr(c) \/ TlsAccept(c) \/ TcpConnect(c) \/ StreamEnd(c)

FairProxy ==
    \A c \in Conns : WF_vars(ReplyStep(c)) /\ WF_vars(ChildStep(c))

\* ------------------------------------------------------------------------
\* C3: a forward-path request whose URL is out of scope is forwarded
\* upstream with its method, headers and body as the client sent them (no
\* request rule applied), the upstream response is returned to the client as
\* the upstream gave it (no response rule applied), and the ring never holds a
\* capture entry of such a request.
\* ------------------------------------------------------------------------
C3_InScope(url) ==
    /\ \A i \in 1..Len(scope.excludes) : ~Contains(url, scope.excludes[i])
    /\ \/ scope.includes = <<>>
       \/ \E i \in 1..Len(scope.includes) : Contains(url, scope.includes[i])

C3_OutOfScope(c) ==
    LET r == conn[c].req
        n == NormalizeUri(r.uri, r.headers)
    IN  /\ r.method \notin {"", "CONNECT"}
        /\ n.ok
        /\ ~C3_InScope(UriToString(n.uri))

C3_OutOfScopeForwardedVerbatim ==
    /\ \A c \in Conns :
         C3_OutOfScope(c) =>
            LET r == conn[c].req
            IN  /\ conn[c].fwd =
                     Req(r.method, NormalizeUri(r.uri, r.headers).uri, r.headers, r.body)
                /\ conn[c].pc = "reply" =>
                     \/ conn[c].up # NoResp /\ conn[c].resp = conn[c].up
                     \/ conn[c].up = NoResp /\ conn[c].resp = ErrorResponse
    /\ \A i \in 1..Len(entries) :
         entries[i].method # "CONNECT" => C3_InScope(entries[i].url)

C3_Witness ==
    \E c \in Conns :
       LET r == conn[c].req
           url == UriToString(NormalizeUri(r.uri, r.headers).uri)
       IN  /\ C3_OutOfScope(c)
           /\ conn[c].pc = "reply"
           /\ conn[c].resp = conn[c].up
           /\ conn[c].up.status = OK
           /\ ApplyRules(rules, "Request", url, r.headers, r.body).headers # r.headers
           /\ ApplyRules(rules, "Response", <<>>, conn[c].up.headers, conn[c].up.body).body
                 # conn[c].up.body
           /\ \E i \in 1..Len(entries) : entries[i].method = "GET"

\* ------------------------------------------------------------------------
\* C6: the accept loop never terminates because of an error tied to one
\* connection: whatever fails while accepting or serving a connection, run
\* is still accepting.
\* ------------------------------------------------------------------------
C6_AcceptLoopNeverTerminates == runPc = "accepting"

\* ------------------------------------------------------------------------
\* C7: the tunnel of a CONNECT moves only along RECEIVED, then
\* TLS_MITM_HANDSHAKE with a TLS acceptor and PLAIN_TUNNEL without one, then
\* STREAMING, then CLOSED, a failing step of the child task leading straight
\* to CLOSED; the 200 has been written to the client before the child is past
\* RECEIVED; nothing is written to the client as an HTTP response once the
\* 200 of the CONNECT was written, whatever the child task does; and every
\* tunnel eventually reaches CLOSED.
\* ------------------------------------------------------------------------
C7_Edges ==
    { <<"NONE", "RECEIVED">>,
      <<"RECEIVED", IF tls THEN "TLS_MITM_HANDSHAKE" ELSE "PLAIN_TUNNEL">>,
      <<"TLS_MITM_HANDSHAKE", "STREAMING">>,
      <<"PLAIN_TUNNEL", "STREAMING">>,
      <<"STREAMING", "CLOSED">>,
      <<"RECEIVED", "CLOSED">>,
      <<"TLS_MITM_HANDSHAKE", "CLOSED">>,
      <<"PLAIN_TUNNEL", "CLOSED">> }

C7_Answered200(c) ==
    /\ conn[c].written > 0
    /\ conn[c].last = OK

C7_Step(c) ==
    /\ tun'[c].state # tun[c].state => <<tun[c].state, tun'[c].state>> \in C7_Edges
    /\ tun[c].state \notin {"NONE", "RECEIVED"} => conn'[c].written = conn[c].written
    /\ (tun[c].state # "NONE" /\ tun'[c] # tun[c]) => conn'[c].written = conn[c].written

Callers == {"k1", "k2"}

\* The jobs of a run: a first one, and one started after it.
Jobs == {1, 2}

MaxJobs == Cardinality(Jobs)

WorkIds == 0..(MaxWork - 1)

\* options.concurrency as configured.
Concurrencies == {0, 2}

NoDispatcher == [pc |-> "none", i |-> 0, n |-> 0, concurrency |-> 0, permits |-> 0]

\* Line 86 and 90: the permits of the semaphore, options.concurrency.max(1).
PermitsAsConfigured(concurrency) == concurrency

Permits(concurrency) == Max(concurrency, 1)

NoTasks == [id \in WorkIds |-> "none"]

\* The request tasks of attack a that hold a permit.
InFlight(a) == {id \in WorkIds : task[a][id] \in {"sent", "collecting"}}

\* is_running.swap(true): whether the caller found an attack running.
SwapFoundIdle(old) == FALSE

SwapFoundRunning(old) == old

\* start_attack, line 78-80: the swap, and the error return.
StartSwap(k) ==
    /\ api = "intruder"
    /\ call[k].pc = "idle"
    /\ IF SwapFoundRunning(intruder_is_running)
       THEN /\ last_return' = "Err"
            /\ UNCHANGED <<call, intruder_is_running, attacks, stop_called, stopped>>
       ELSE /\ attacks < MaxJobs
            /\ attacks' = attacks + 1
            /\ call' = [call EXCEPT ![k] = [pc |-> "clear", job |-> attacks + 1]]
            /\ intruder_is_running' = TRUE
            /\ stop_called' = FALSE
            /\ UNCHANGED stopped
            /\ UNCHANGED last_return
    /\ UNCHANGED <<api, results, disp, task>>
    /\ UNCHANGED <<scannerVars, nonJobVars>>

\* start_attack, line 82: clear_results.
StartClear(k) ==
    /\ api = "intruder"
    /\ call[k].pc = "clear"
    /\ results' = <<>>
    /\ call' = [call EXCEPT ![k].pc = "spawn"]
    /\ UNCHANGED <<api, last_return, intruder_is_running, attacks, stop_called, stopped, disp, task>>
    /\ UNCHANGED <<scannerVars, nonJobVars>>

\* start_attack, line 83-152: generate the requests, spawn the dispatcher
\* with its semaphore of concurrency.max(1) permits, return Ok.
StartSpawn(k) ==
    /\ api = "intruder"
    /\ call[k].pc = "spawn"
    /\ \E n \in {0, MaxWork}, concurrency \in Concurrencies :
         disp' = [disp EXCEPT ![call[k].job] =
                     [pc |-> "poll", i |-> 0, n |-> n, concurrency |-> concurrency,
                      permits |-> Permits(concurrency)]]
    /\ call' = [call EXCEPT ![k] = [pc |-> "idle", job |-> 0]]
    /\ last_return' = "Ok"
    /\ UNCHANGED <<api, intruder_is_running, attacks, stop_called, stopped, results, task>>
    /\ UNCHANGED <<scannerVars, nonJobVars>>

\* Whether the poll of the flag tells the dispatcher to go on.
PollIgnoresStop(flag) == TRUE

PollSeesRunning(flag) == flag

\* The dispatcher, line 93-96: the next iteration of the loop, or its end.
DispPoll(a) ==
    /\ disp[a].pc = "poll"
    /\ disp' = [disp EXCEPT ![a].pc =
          IF disp[a].i < disp[a].n /\ PollSeesRunning(intruder_is_running)
          THEN "acquire" ELSE "join"]
    /\ UNCHANGED <<api, call, last_return, intruder_is_running, attacks, stop_called, stopped, results, task>>
    /\ UNCHANGED <<scannerVars, nonJobVars>>

\* The dispatcher, line 98-141: a permit is free; the request task is
\* spawned and sends its request.
DispSpawn(a) ==
    /\ disp[a].pc = "acquire"
    /\ Cardinality(InFlight(a)) < disp[a].permits
    /\ task' = [task EXCEPT ![a][disp[a].i] = "sent"]
    /\ disp' = [disp EXCEPT ![a].pc = "poll", ![a].i = disp[a].i + 1]
    /\ UNCHANGED <<api, call, last_return, intruder_is_running, attacks, stop_called, stopped, results>>
    /\ UNCHANGED <<scannerVars, nonJobVars>>

\* A request task, line 115-116: the upstream answered.
TaskAnswered(a, id) ==
    /\ task[a][id] = "sent"
    /\ task' = [task EXCEPT ![a][id] = "collecting"]
    /\ UNCHANGED <<api, call, last_return, intruder_is_running, attacks, stop_called, stopped, results, disp>>
    /\ UNCHANGED <<scannerVars, nonJobVars>>

\* A request task, line 132-139: the request did not parse or failed; no
\* result is stored.
TaskFailed(a, id) ==
    /\ task[a][id] = "sent"
    /\ task' = [task EXCEPT ![a][id] = "none"]
    /\ UNCHANGED <<api, call, last_return, intruder_is_running, attacks, stop_called, stopped, results, disp>>
    /\ UNCHANGED <<scannerVars, nonJobVars>>

\* A request task, line 117-130: the body is read and the result pushed.
TaskRecord(a, id) ==
    /\ task[a][id] = "collecting"
    /\ results' = Append(results, [request_id |-> id, payload |-> "", attack |-> a])
    /\ task' = [task EXCEPT ![a][id] = "none"]
    /\ UNCHANGED <<api, call, last_return, intruder_is_running, attacks, stop_called, stopped, disp>>
    /\ UNCHANGED <<scannerVars, nonJobVars>>

\* The dispatcher, line 144-149: every handle is joined, then
\* is_running.store(false); the dispatcher and its request tasks are gone.
DispJoin(a) ==
    /\ disp[a].pc = "join"
    /\ InFlight(a) = {}
    /\ intruder_is_running' = FALSE
    /\ disp' = [disp EXCEPT ![a] = [NoDispatcher EXCEPT !.pc = "done"]]
    /\ task' = [task EXCEPT ![a] = NoTasks]
    /\ UNCHANGED <<api, call, last_return, attacks, stop_called, stopped, results>>
    /\ UNCHANGED <<scannerVars, nonJobVars>>

\* stop_attack
StopAttack ==
    /\ api = "intruder"
    /\ intruder_is_running' = FALSE
    /\ stop_called' = TRUE
    /\ stopped' = 1..attacks
    /\ UNCHANGED <<api, call, last_return, attacks, results, disp, task>>
    /\ UNCHANGED <<scannerVars, nonJobVars>>

InitIntruder ==
    /\ intruder_is_running = FALSE
    /\ results = <<>>
    /\ attacks = 0
    /\ disp = [a \in Jobs |-> NoDispatcher]
    /\ task = [a \in Jobs |-> NoTasks]

NextIntruder ==
    \/ \E k \in Callers : StartSwap(k)
    \/ \E k \in Callers : StartClear(k)
    \/ \E k \in Callers : StartSpawn(k)
    \/ \E a \in Jobs : DispPoll(a)
    \/ \E a \in Jobs : DispSpawn(a)
    \/ \E a \in Jobs, id \in WorkIds : TaskAnswered(a, id)
    \/ \E a \in Jobs, id \in WorkIds : TaskFailed(a, id)
    \/ \E a \in Jobs, id \in WorkIds : TaskRecord(a, id)
    \/ \E a \in Jobs : DispJoin(a)
    \/ StopAttack

\* ------------------------------------------------------------------------
\* Scanner, the active scan (core/src/scanner/mod.rs).  Scan s is the one
\* whose start got scan_id s; it has the dispatcher task sdisp[s] and one
\* task stask[s][t] per target t.
\* ------------------------------------------------------------------------
\* The payloads of the active rule every target is tested with.
ActivePayloads == <<"p1", "p2">>

NoScan == [pc |-> "none", t |-> 0, n |-> 0, permits |-> 0]

NoTargetTask == [pc |-> "none", p |-> 0]

\* The target tasks of scan s that hold a permit.
Testing(s) == {t \in WorkIds : stask[s][t].pc \in {"poll", "testing"}}

\* start_active_scan, line 146-148: the swap, and the error return.
ScanStartSwap(k) ==
    /\ api = "scanner"
    /\ call[k].pc = "idle"
    /\ IF SwapFoundRunning(scanner_is_running)
       THEN /\ last_return' = "Err"
            /\ UNCHANGED <<call, scanner_is_running, stop_called, stopped>>
       ELSE /\ scan_id + Cardinality({j \in Callers : call[j].pc = "spawn"}) < MaxJobs
            /\ call' = [call EXCEPT ![k].pc = "spawn"]
            /\ scanner_is_running' = TRUE
            /\ stop_called' = FALSE
            /\ UNCHANGED stopped
            /\ UNCHANGED last_return
    /\ UNCHANGED <<api, scan_id, requests_scanned, sdisp, stask>>
    /\ UNCHANGED <<intruderVars, nonJobVars>>

\* start_active_scan, line 150-183: take the scan id, read the config, spawn
\* the dispatcher with its semaphore of config.concurrency permits, return
\* Ok(scan_id).
ScanStartSpawn(k) ==
    /\ api = "scanner"
    /\ call[k].pc = "spawn"
    /\ scan_id' = scan_id + 1
    /\ \E n \in {0, MaxWork}, concurrency \in Concurrencies :
         sdisp' = [sdisp EXCEPT ![scan_id + 1] =
                      [pc |-> "poll", t |-> 0, n |-> n, permits |-> concurrency]]
    /\ call' = [call EXCEPT ![k] = [pc |-> "idle", job |-> 0]]
    /\ last_return' = "Ok"
    /\ UNCHANGED <<api, scanner_is_running, stop_called, stopped, requests_scanned, stask>>
    /\ UNCHANGED <<intruderVars, nonJobVars>>

\* The dispatcher, line 158-161 and 180: the next target, or the end of the
\* loop and is_running.store(false), which follows it without an await.
ScanPoll(s) ==
    /\ sdisp[s].pc = "poll"
    /\ IF sdisp[s].t < sdisp[s].n /\ PollSeesRunning(scanner_is_running)
       THEN /\ sdisp' = [sdisp EXCEPT ![s].pc = "acquire"]
            /\ UNCHANGED scanner_is_running
       ELSE /\ sdisp' = [sdisp EXCEPT ![s] = [NoScan EXCEPT !.pc = "done"]]
            /\ scanner_is_running' = FALSE
    /\ UNCHANGED <<api, call, last_return, stop_called, stopped, scan_id, requests_scanned, stask>>
    /\ UNCHANGED <<intruderVars, nonJobVars>>

\* The dispatcher, line 163-177: a permit is free; the task of the target is
\* spawned.
ScanSpawn(s) ==
    /\ sdisp[s].pc = "acquire"
    /\ Cardinality(Testing(s)) < sdisp[s].permits
    /\ stask' = [stask EXCEPT ![s][sdisp[s].t] = [pc |-> "poll", p |-> 0]]
    /\ sdisp' = [sdisp EXCEPT ![s].pc = "poll", ![s].t = sdisp[s].t + 1]
    /\ UNCHANGED <<api, call, last_return, stop_called, stopped, scanner_is_running, scan_id, requests_scanned>>
    /\ UNCHANGED <<intruderVars, nonJobVars>>

\* run_active_tests, line 197-202: the poll before a payload; the task
\* returns when the flag is down or no payload is left.
ScanTaskPoll(s, t) ==
    /\ stask[s][t].pc = "poll"
    /\ stask' = [stask EXCEPT ![s][t] =
          IF stask[s][t].p < Len(ActivePayloads) /\ PollSeesRunning(scanner_is_running)
          THEN [pc |-> "testing", p |-> stask[s][t].p]
          ELSE NoTargetTask]
    /\ UNCHANGED <<api, call, last_return, stop_called, stopped, scanner_is_running, scan_id,
                   requests_scanned, sdisp>>
    /\ UNCHANGED <<intruderVars, nonJobVars>>

\* run_active_tests, line 202-207: test_payload returned; the request is
\* counted.
ScanTaskTested(s, t) ==
    /\ stask[s][t].pc = "testing"
    /\ requests_scanned' = requests_scanned + 1
    /\ stask' = [stask EXCEPT ![s][t] = [pc |-> "poll", p |-> stask[s][t].p + 1]]
    /\ UNCHANGED <<api, call, last_return, stop_called, stopped, scanner_is_running, scan_id, sdisp>>
    /\ UNCHANGED <<intruderVars, nonJobVars>>

\* stop_scan
StopScan ==
    /\ api = "scanner"
    /\ scanner_is_running' = FALSE
    /\ stop_called' = TRUE
    /\ stopped' = 1..(scan_id + Cardinality({k \in Callers : call[k].pc = "spawn"}))
    /\ UNCHANGED <<api, call, last_return, scan_id, requests_scanned, sdisp, stask>>
    /\ UNCHANGED <<intruderVars, nonJobVars>>

InitScanner ==
    /\ scanner_is_running = FALSE
    /\ scan_id = 0
    /\ requests_scanned = 0
    /\ sdisp = [s \in Jobs |-> NoScan]
    /\ stask = [s \in Jobs |-> [t \in WorkIds |-> NoTargetTask]]

NextScanner ==
    \/ \E k \in Callers : ScanStartSwap(k)
    \/ \E k \in Callers : ScanStartSpawn(k)
    \/ \E s \in Jobs : ScanPoll(s)
    \/ \E s \in Jobs : ScanSpawn(s)
    \/ \E s \in Jobs, t \in WorkIds : ScanTaskPoll(s, t)
    \/ \E s \in Jobs, t \in WorkIds : ScanTaskTested(s, t)
    \/ StopScan

\* The control surface drives one of the two engines, with two clients.
InitJobs ==
    /\ api \in {"intruder", "scanner"}
    /\ call = [k \in Callers |-> [pc |-> "idle", job |-> 0]]
    /\ last_return = "none"
    /\ stop_called = FALSE
    /\ stopped = {}
    /\ InitIntruder
    /\ InitScanner

NextJobs == NextIntruder \/ NextScanner

\* The scheduling of the spawned tasks: the runtime keeps polling a
\* dispatcher that can go on, and a request that was sent ends, answered or
\* failed.
DispStep(a) == DispPoll(a) \/ DispSpawn(a) \/ DispJoin(a)

TaskStep(a, id) == TaskAnswered(a, id) \/ TaskFailed(a, id) \/ TaskRecord(a, id)

FairJobs ==
    /\ \A a \in Jobs : WF_vars(DispStep(a))
    /\ \A a \in Jobs, id \in WorkIds : WF_vars(TaskStep(a, id))

\* ------------------------------------------------------------------------
\* C8: a start call made while the engine (Intruder or Scanner) is running
\* returns an error and changes nothing: no caller gets past the swap, the
\* flag, the dispatchers, the tasks and the accumulated results stay as they
\* are; a start call gets past the swap only when the engine is idle, and it
\* leaves the engine running, so that of two racing calls the second one is
\* refused.
\* ------------------------------------------------------------------------
C8_Running == IF api = "intruder" THEN intruder_is_running ELSE scanner_is_running

C8_Entered(k) == call[k].pc = "idle" /\ call'[k].pc # "idle"

C8_StartWhileRunningIsRefused ==
    [][ /\ (last_return' = "Err" /\ last_return # "Err") =>
              /\ C8_Running
              /\ UNCHANGED <<call, stop_called, intruderVars, scannerVars>>
        /\ C8_Running =>
              /\ \A k \in Callers : ~C8_Entered(k)
              /\ (\E k \in Callers : call[k].pc = "idle" /\ call' = call
                                     /\ last_return' # last_return)
                    => last_return' = "Err"
        /\ \A k \in Callers :
              C8_Entered(k) =>
                 /\ ~C8_Running
                 /\ C8_Running'
                 /\ \A j \in Callers \ {k} : ~C8_Entered(j)
      ]_vars

C8_Witness ==
    /\ api = "intruder"
    /\ attacks = 1
    /\ intruder_is_running
    /\ ~stop_called
    /\ last_return = "Err"
    /\ results # <<>>
    /\ \E id \in WorkIds : task[1][id] = "sent"

\* ------------------------------------------------------------------------
\* C9: the dispatchers poll the flag before every request and, once a poll
\* finds it down, issue no further request: the Intruder dispatcher leaves
\* its loop for the join and never spawns again, the Scanner dispatcher
\* ends, and a Scanner target task returns.  A stop interrupts no request in
\* flight: an answered Intruder request still appends its result, and a
\* Scanner test in flight is still counted.
\* ------------------------------------------------------------------------
C9_IntruderStep(a) ==
    /\ (disp[a].pc = "poll" /\ disp'[a].pc = "acquire") => intruder_is_running
    /\ (disp[a].pc = "poll" /\ ~intruder_is_running /\ disp'[a] # disp[a])
          => disp'[a].pc = "join" /\ disp'[a].i = disp[a].i
    /\ (disp'[a].pc = "acquire") => disp[a].pc \in {"poll", "acquire"}
    /\ disp[a].pc \in {"join", "done"} => disp'[a].pc \in {"join", "done"}
    /\ \A id \in WorkIds :
          /\ (task[a][id] # "sent" /\ task'[a][id] = "sent")
                => disp[a].pc = "acquire" /\ disp[a].i = id /\ disp'[a].pc = "poll"
          /\ (task[a][id] = "collecting" /\ task'[a][id] # "collecting")
                => results' = Append(results,
                                     [request_id |-> id, payload |-> "", attack |-> a])

C9_ScannerStep(s) ==
    /\ (sdisp[s].pc = "poll" /\ sdisp'[s].pc = "acquire") => scanner_is_running
    /\ (sdisp[s].pc = "poll" /\ ~scanner_is_running /\ sdisp'[s] # sdisp[s])
          => sdisp'[s].pc = "done"
    /\ sdisp[s].pc = "done" => sdisp'[s].pc = "done"
    /\ \A t \in WorkIds :
          /\ (stask[s][t].pc = "none" /\ stask'[s][t].pc # "none")
                => sdisp[s].pc = "acquire" /\ sdisp[s].t = t
          /\ (stask[s][t].pc # "testing" /\ stask'[s][t].pc = "testing")
                => stask[s][t].pc = "poll" /\ scanner_is_running
          /\ (stask[s][t].pc = "poll" /\ ~scanner_is_running /\ stask'[s][t] # stask[s][t])
                => stask'[s][t] = NoTargetTask
          /\ (stask[s][t].pc = "testing" /\ stask'[s][t].pc # "testing")
                => requests_scanned' = requests_scanned + 1

C9_StopHonouredBetweenRequests ==
    [][ /\ \A a \in Jobs : C9_IntruderStep(a)
        /\ \A s \in Jobs : C9_ScannerStep(s)
        /\ (stop_called' /\ ~stop_called) => (task' = task /\ stask' = stask)
      ]_vars

C9_Witness ==
    /\ api = "intruder"
    /\ stop_called
    /\ ~intruder_is_running
    /\ \E a \in Jobs :
          /\ disp[a].pc = "join"
          /\ disp[a].i < disp[a].n
          /\ \E id \in WorkIds : task[a][id] = "collecting"

\* ------------------------------------------------------------------------
\* C10: is_running() is false initially and true from a successful start;
\* it goes from true to false without a stop call (COMPLETED) only when
\* every request the most recently started attack generated has been
\* dispatched and its task has finished.
\* ------------------------------------------------------------------------
C10_AttackStateMachine ==
    /\ ~intruder_is_running
    /\ [][ /\ \A k \in Callers :
                 (api = "intruder" /\ C8_Entered(k)) => intruder_is_running'
           /\ (intruder_is_running /\ ~intruder_is_running' /\ ~stop_called')
                 => /\ disp[attacks].pc = "join"
                    /\ disp[attacks].i = disp[attacks].n
                    /\ InFlight(attacks) = {}
         ]_vars

\* ------------------------------------------------------------------------
\* C11: the request tasks of an attack that hold a permit (spawned and not
\* yet ended) never number more than max(options.concurrency, 1), and the
\* dispatcher never waits for a permit forever, also with a configured
\* concurrency of 0: a dispatcher waiting to acquire eventually spawns the
\* request and goes back to the poll.
\* ------------------------------------------------------------------------
C11_Bounded ==
    \A a \in Jobs : Cardinality(InFlight(a)) <= Max(disp[a].concurrency, 1)

C12_IntruderStep(a) ==
    (a \notin stopped' /\ disp[a].pc = "poll" /\ disp'[a].pc = "join")
       => disp[a].i = disp[a].n

C12_ScannerStep(s) ==
    /\ (s \notin stopped' /\ sdisp[s].pc = "poll" /\ sdisp'[s].pc = "done")
          => sdisp[s].t = sdisp[s].n
    /\ \A t \in WorkIds :
          (s \notin stopped' /\ stask[s][t].pc = "poll" /\ stask'[s][t] = NoTargetTask)
             => stask[s][t].p = Len(ActivePayloads)

C12_UnstoppedJobProcessesWholeList ==
    [][ /\ \A a \in Jobs : C12_IntruderStep(a)
        /\ \A s \in Jobs : C12_ScannerStep(s)
      ]_vars

\* ------------------------------------------------------------------------
\* C13: the ring is ordered newest-first by id: get_all() lists the entries
\* in strictly decreasing id order, and as long as nothing was cleared every
\* entry that eviction removed has a smaller id than every entry still in
\* the ring, also when pushes overlap.
\* ------------------------------------------------------------------------
C13_RingNewestFirst ==
    /\ \A i, j \in 1..Len(entries) : i < j => entries[i].id > entries[j].id
    /\ clears = 0 =>
          \A e \in Range(inserted) \ {entries[i].id : i \in 1..Len(entries)} :
             \A i \in 1..Len(entries) : e < entries[i].id

\* ------------------------------------------------------------------------
\* C14: a subscriber that never lags has received, at any moment, a prefix
\* of what was sent after it subscribed, every entry at most once, and in
\* increasing id order, also when pushes overlap.
\* ------------------------------------------------------------------------
C14_SubscriberSeesIncreasingIds ==
    subscribed_at >= 0 =>
       /\ Len(received) <= Len(notifier) - subscribed_at
       /\ received = SubSeq(notifier, subscribed_at + 1, subscribed_at + Len(received))
       /\ \A i, j \in 1..Len(received) : i < j => received[i] < received[j]

\* ------------------------------------------------------------------------
\* C15: push returns its id whether or not the row was stored: the step that
\* ends push adds the id to the returned ids and touches neither the ring,
\* the channel nor the counter, and every id push has returned was inserted
\* into the ring and sent on the channel before.
\* ------------------------------------------------------------------------
C15_PersistFailureIsNoOp ==
    [][ /\ \A p \in Pushers :
              (pushPc[p] = "persist" /\ pushPc'[p] # "persist") =>
                 /\ returned' = returned (+) SetToBag({pushEntry[p].id})
                 /\ UNCHANGED <<entries, notifier, counter>>
        /\ \A id \in BagToSet(returned') :
              id \in Range(inserted') /\ id \in Range(notifier')
      ]_vars

\* With a store and no clear, a push returned its id without a row, and a
\* later push stored its row.
C15_Witness ==
    /\ storage
    /\ clears = 0
    /\ \E id \in BagToSet(returned) :
          /\ id \notin rows
          /\ \E later \in BagToSet(returned) : later > id /\ later \in rows
          /\ \E i \in 1..Len(entries) : entries[i].id = id

\* ------------------------------------------------------------------------
\* C16: once clear() has returned, no entry whose push had returned before
\* clear() was called is in the ring or in the store, so neither get_all()
\* nor query() returns one; the id counter is not reset.
\* ------------------------------------------------------------------------
C16_Returned == clears = 1 /\ clearPc = "idle"

C16_CounterNotReset == counter = 1 + Len(handed)

C16_ClearEmptiesRingAndStore ==
    C16_Returned =>
       /\ Range(GetAll) \cap before_clear = {}
       /\ rows \cap before_clear = {}
       /\ \A q \in QueryResults : q \cap before_clear = {}
       /\ C16_CounterNotReset

\* ------------------------------------------------------------------------
\* C17: when execute_hook returns, the plugins it invoked are the enabled
\* ones, in strictly ascending name order whatever order the map yielded
\* them in; the first was handed the caller's context, and each later one
\* the context of its predecessor, with the predecessor's writes when that
\* one returned within its limits and without them when it did not return.
\* ------------------------------------------------------------------------
C17_Next(i) == IF i < Len(hook_calls) THEN hook_calls[i + 1].seen ELSE hook_output

C18_SignalsBlock(o) == o.kind = "returned" /\ o.ret # 0

C19_Failed(o) == o.kind \in {"instantiate_err", "trap"} \/ o.slow

C19_FailedPluginIsNoOp ==
    hookPc = "returned" =>
       /\ \A i \in 1..Len(hook_calls) :
             C19_Failed(hook_calls[i].outcome) => C17_Next(i) = hook_calls[i].seen
       /\ {hook_calls[i].name : i \in 1..Len(hook_calls)}
             = {p.name : p \in {q \in plugins : q.enabled}}

\* ------------------------------------------------------------------------
\* C20: when the OnRequest hook returned a context in which a plugin has set
\* X-Seen, the request sent upstream carries the header, and so does every
\* request the proxy captured from the forward path.
\* ------------------------------------------------------------------------
C20_PluginHeaderTakesEffect ==
    /\ \A c \in Conns :
          (conn[c].pc \in {"upstream", "oos_upstream"}
             /\ ContainsKey(conn[c].hook.headers, X_SEEN))
                => ContainsKey(conn[c].fwd.headers, "x-seen")
    /\ (\E p \in plugins : p.enabled) =>
          \A i \in 1..Len(entries) :
             ("headers" \in DOMAIN entries[i] /\ entries[i].method # "CONNECT")
                => ContainsKey(entries[i].headers, "x-seen")

\* ------------------------------------------------------------------------
\* CertManager (core/src/cert_manager.rs): leaf certificates memoised by
\* host.  A key pair is identified by the order it was generated in: every
\* Certificate::from_params call draws a fresh key.
\* ------------------------------------------------------------------------
\* The TLS handshakes that resolve a certificate concurrently.
Handshakes == {"h1", "h2"}

\* No call in progress.
NoCertCall == [pc |-> "idle", domain |-> <<>>, pair |-> 0]

\* DashMap::insert: the value of an occupied key is replaced.
MapInsert(map, k, v) == [x \in (DOMAIN map) \cup {k} |-> IF x = k THEN v ELSE map[x]]

\* generate_cert, lines 80-82: the cache holds the host; the cached pair is
\* returned.
CertHit(h, d) ==
    /\ certPc[h].pc = "idle"
    /\ d \in DOMAIN cert_cache
    /\ issued' = issued \cup {<<d, cert_cache[d]>>}
    /\ UNCHANGED <<cert_cache, key_pairs, certPc, nonCertVars>>

\* generate_cert, line 80: the cache does not hold the host.
CertMiss(h, d) ==
    /\ certPc[h].pc = "idle"
    /\ d \notin DOMAIN cert_cache
    /\ certPc' = [certPc EXCEPT ![h] = [pc |-> "missed", domain |-> d, pair |-> 0]]
    /\ UNCHANGED <<cert_cache, key_pairs, issued, nonCertVars>>

\* generate_cert, lines 84-90: a leaf with a fresh key pair is signed by the
\* CA.
CertGenerate(h) ==
    /\ certPc[h].pc = "missed"
    /\ key_pairs < MaxKeyPairs
    /\ key_pairs' = key_pairs + 1
    /\ certPc' = [certPc EXCEPT ![h].pc = "generated", ![h].pair = key_pairs + 1]
    /\ UNCHANGED <<cert_cache, issued, nonCertVars>>

\* generate_cert, lines 86 and 88: from_params or the signing failed; the call
\* returns Err and leaves the cache alone.
CertGenerateErr(h) ==
    /\ certPc[h].pc = "missed"
    /\ certPc' = [certPc EXCEPT ![h] = NoCertCall]
    /\ UNCHANGED <<cert_cache, key_pairs, issued, nonCertVars>>

\* generate_cert, lines 91-92: the pair is inserted and returned.
CertInsert(h) ==
    /\ certPc[h].pc = "generated"
    /\ cert_cache' = MapInsert(cert_cache, certPc[h].domain, certPc[h].pair)
    /\ issued' = issued \cup {<<certPc[h].domain, certPc[h].pair>>}
    /\ certPc' = [certPc EXCEPT ![h] = NoCertCall]
    /\ UNCHANGED <<key_pairs, nonCertVars>>

InitCerts ==
    /\ cert_cache = <<>>
    /\ key_pairs = 0
    /\ certPc = [h \in Handshakes |-> NoCertCall]
    /\ issued = {}

NextCerts ==
    \/ \E h \in Handshakes, d \in Hosts : CertHit(h, d)
    \/ \E h \in Handshakes, d \in Hosts : CertMiss(h, d)
    \/ \E h \in Handshakes : CertGenerate(h)
    \/ \E h \in Handshakes : CertGenerateErr(h)
    \/ \E h \in Handshakes : CertInsert(h)

\* ------------------------------------------------------------------------
\* C21: the pair cached for a host is never replaced or removed, and all
\* the generate_cert calls for one host return the same pair.
\* ------------------------------------------------------------------------
C21_Stable ==
    \A d \in DOMAIN cert_cache :
       d \in DOMAIN cert_cache' /\ cert_cache'[d] = cert_cache[d]

C21_OnePairPerHost == \A x, y \in issued : x[1] = y[1] => x[2] = y[2]

C21_CachedLeafIsNeverReplaced == [][C21_Stable]_vars /\ []C21_OnePairPerHost

\* ------------------------------------------------------------------------
\* WsCapture (int3rceptor/core/src/websocket.rs): the captured WebSocket
\* frames under a global and a per-connection cap.  A frame of the model
\* carries, besides its id and connection_id, the ordinal nth of its push.
\* ------------------------------------------------------------------------
WsThreads == {"w1", "w2"}

WsConnectionIds == {"conn1", "conn2"}

NoWsCall == [pc |-> "idle", connection_id |-> "", id |-> 0]

\* frames.iter().filter(|f| f.connection_id == connection_id).count()
WsCount(frames, c) == Cardinality({i \in 1..Len(frames) : frames[i].connection_id = c})

\* Vec::remove(pos)
RemoveAt(s, pos) == SubSeq(s, 1, pos - 1) \o SubSeq(s, pos + 1, Len(s))

\* Lines 155-162: over the global cap the frame at index 0 is removed.
WsEvictGlobal(frames, max) == IF Len(frames) > max THEN RemoveAt(frames, 1) ELSE frames

\* A per-connection cap that evicts nothing.
WsKeepConnection(frames, c, max) == frames

\* Lines 165-174: over the per-connection cap the first frame of the
\* connection is removed.
WsEvictConnection(frames, c, max) ==
    IF WsCount(frames, c) > max
    THEN LET pos == CHOOSE i \in 1..Len(frames) :
                       /\ frames[i].connection_id = c
                       /\ \A j \in 1..(i - 1) : frames[j].connection_id # c
         IN RemoveAt(frames, pos)
    ELSE frames

\* Lines 178-180: frames_count of the first connection with that id.
WsBumpCount(conns, c) ==
    IF \E i \in 1..Len(conns) : conns[i].id = c
    THEN LET pos == CHOOSE i \in 1..Len(conns) :
                       conns[i].id = c /\ \A j \in 1..(i - 1) : conns[j].id # c
         IN [conns EXCEPT ![pos].frames_count = @ + 1]
    ELSE conns

\* register_connection, lines 81-92.
RegisterConnection(c) ==
    /\ Len(ws_connections) < Cardinality(WsConnectionIds)
    /\ ws_connections' = Append(ws_connections, [id |-> c, frames_count |-> 0])
    /\ UNCHANGED <<ws_max_frames, ws_max_frames_per_connection, ws_frames, wsPc,
                   wsClearPc, ws_pushed, ws_evicted, ws_ids, nonWsVars>>

\* capture_frame, lines 113-119: a payload over MAX_PAYLOAD_SIZE is rejected.
WsReject(t) ==
    /\ wsPc[t].pc = "idle"
    /\ ws_ids' = Append(ws_ids, [ok |-> FALSE, id |-> 0])
    /\ Len(ws_ids) < MaxFrames
    /\ UNCHANGED <<ws_max_frames, ws_max_frames_per_connection, ws_connections,
                   ws_frames, wsPc, wsClearPc, ws_pushed, ws_evicted, nonWsVars>>

\* capture_frame, lines 122-139: under the read lock, the per-connection
\* count (only logged) and frame_id = frames.len() + 1.
WsReadId(t, c) ==
    /\ wsPc[t].pc = "idle"
    /\ Len(ws_ids) + Cardinality({u \in WsThreads : wsPc[u].pc # "idle"}) < MaxFrames
    /\ wsPc' = [wsPc EXCEPT ![t] = [pc |-> "built", connection_id |-> c,
                                    id |-> Len(ws_frames) + 1]]
    /\ UNCHANGED <<ws_max_frames, ws_max_frames_per_connection, ws_connections,
                   ws_frames, wsClearPc, ws_pushed, ws_evicted, ws_ids, nonWsVars>>

\* capture_frame, lines 151-182: under the write lock the frame is pushed,
\* the two caps are enforced, the connection's frames_count is bumped, and
\* the id is returned.
WsInsert(t) ==
    /\ wsPc[t].pc = "built"
    /\ LET c == wsPc[t].connection_id
           pushed == Append(ws_frames, [id |-> wsPc[t].id, connection_id |-> c,
                                        nth |-> ws_pushed + 1])
           capped == WsEvictConnection(WsEvictGlobal(pushed, ws_max_frames), c,
                                       ws_max_frames_per_connection)
       IN /\ ws_frames' = capped
          /\ ws_evicted' = ws_evicted + (Len(pushed) - Len(capped))
          /\ ws_connections' = WsBumpCount(ws_connections, c)
    /\ ws_pushed' = ws_pushed + 1
    /\ ws_ids' = Append(ws_ids, [ok |-> TRUE, id |-> wsPc[t].id])
    /\ wsPc' = [wsPc EXCEPT ![t] = NoWsCall]
    /\ UNCHANGED <<ws_max_frames, ws_max_frames_per_connection, wsClearPc, nonWsVars>>

\* clear(), line 207.
WsClearConnections ==
    /\ wsClearPc = "idle"
    /\ ws_connections' = <<>>
    /\ wsClearPc' = "frames"
    /\ UNCHANGED <<ws_max_frames, ws_max_frames_per_connection, ws_frames, wsPc,
                   ws_pushed, ws_evicted, ws_ids, nonWsVars>>

\* clear(), line 208.
WsClearFrames ==
    /\ wsClearPc = "frames"
    /\ ws_frames' = <<>>
    /\ wsClearPc' = "idle"
    /\ UNCHANGED <<ws_max_frames, ws_max_frames_per_connection, ws_connections, wsPc,
                   ws_pushed, ws_evicted, ws_ids, nonWsVars>>

\* WsCapture::with_limits(2, 1): nothing registered, nothing captured.
InitWs ==
    /\ ws_max_frames = 2
    /\ ws_max_frames_per_connection = 1
    /\ ws_connections = <<>>
    /\ ws_frames = <<>>
    /\ wsPc = [t \in WsThreads |-> NoWsCall]
    /\ wsClearPc = "idle"
    /\ ws_pushed = 0
    /\ ws_evicted = 0
    /\ ws_ids = <<>>

\* WsCapture::with_limits with every pair of caps of the model.
InitWsLimits ==
    /\ ws_max_frames \in 0..MaxFrames
    /\ ws_max_frames_per_connection \in 0..MaxFrames
    /\ ws_connections = <<>>
    /\ ws_frames = <<>>
    /\ wsPc = [t \in WsThreads |-> NoWsCall]
    /\ wsClearPc = "idle"
    /\ ws_pushed = 0
    /\ ws_evicted = 0
    /\ ws_ids = <<>>

NextWs ==
    \/ \E c \in WsConnectionIds : RegisterConnection(c)
    \/ \E t \in WsThreads : WsReject(t)
    \/ \E t \in WsThreads, c \in WsConnectionIds : WsReadId(t, c)
    \/ \E t \in WsThreads : WsInsert(t)
    \/ WsClearConnections
    \/ WsClearFrames

\* ------------------------------------------------------------------------
\* C22: after every capture_frame call the stored frames number at most
\* max_frames and those of each connection at most
\* max_frames_per_connection; a call evicts only when a cap is exceeded,
\* and what it evicts is the oldest frame overall (global cap) or the oldest
\* frame of the captured frame's connection (per-connection cap).
\* ------------------------------------------------------------------------
C22_WithinCaps ==
    /\ Len(ws_frames) <= ws_max_frames
    /\ \A c \in WsConnectionIds : WsCount(ws_frames, c) <= ws_max_frames_per_connection

C22_Kept == {ws_frames'[i].nth : i \in 1..Len(ws_frames')}

C22_EvictsOldest ==
    ws_pushed' # ws_pushed =>
       LET t == (CHOOSE u \in WsThreads : wsPc'[u] # wsPc[u])
           conn_id == wsPc[t].connection_id
           pushed == Append(ws_frames, [connection_id |-> conn_id, nth |-> ws_pushed'])
           gone == {i \in 1..Len(pushed) : pushed[i].nth \notin C22_Kept}
       IN /\ C22_Kept \subseteq {pushed[i].nth : i \in 1..Len(pushed)}
          /\ \A i \in 1..(Len(ws_frames') - 1) : ws_frames'[i].nth < ws_frames'[i + 1].nth
          /\ gone # {} =>
                \/ Len(pushed) > ws_max_frames
                \/ WsCount(pushed, conn_id) > ws_max_frames_per_connection
          /\ \A i \in gone :
                \/ i = 1 /\ Len(pushed) > ws_max_frames
                \/ /\ pushed[i].connection_id = conn_id
                   /\ WsCount(pushed, conn_id) > ws_max_frames_per_connection
                   /\ \A j \in 1..(i - 1) :
                         pushed[j].connection_id = conn_id => j \in gone

C22_CapsHoldByEvictingOldest == []C22_WithinCaps /\ [][C22_EvictsOldest]_vars

\* A call has evicted and left the capture full, with frames of both
\* connections stored.
C22_Witness ==
    /\ ws_evicted >= 1
    /\ Len(ws_frames) = ws_max_frames
    /\ \E i, j \in 1..Len(ws_frames) :
          ws_frames[i].connection_id # ws_frames[j].connection_id

\* ------------------------------------------------------------------------
\* C23: the ids capture_frame returns are strictly increasing in return
\* order, hence pairwise distinct, and no two stored frames share an id.
\* ------------------------------------------------------------------------
C23_Ok == SelectSeq(ws_ids, LAMBDA r : r.ok)

C23_FrameIdsUniqueIncreasing ==
    /\ \A i \in 1..(Len(C23_Ok) - 1) : C23_Ok[i].id < C23_Ok[i + 1].id
    /\ \A i, j \in 1..Len(ws_frames) : i # j => ws_frames[i].id # ws_frames[j].id

\* ------------------------------------------------------------------------
\* ScopeManager (int3rceptor/core/src/scope.rs) driven directly: set_config
\* and is_in_scope over every configuration of the model.
\* ------------------------------------------------------------------------
\* The substrings a scope list may hold.
ScopePatterns == { <<ChA>>, <<ChB>>, <<ChA, ChB>> }

\* The lists of at most MaxPatterns patterns.
PatternLists == UNION { [1..n -> ScopePatterns] : n \in 0..MaxPatterns }

AllScopeConfigs == [includes : PatternLists, excludes : PatternLists]

ScopeUrls == { <<ChA>>, <<ChB>>, <<ChA, ChA>>, <<ChA, ChB>>, <<ChB, ChA>>, <<ChB, ChB>> }

NoAnswer == [asked |-> FALSE, config |-> [includes |-> <<>>, excludes |-> <<>>],
             url |-> <<>>, in_scope |-> FALSE]

\* set_config, lines 27-29.
SetConfig(cfg) ==
    /\ scope' = cfg
    /\ UNCHANGED <<tls, runPc, REQUEST_COUNTER, conn, tun>>
    /\ UNCHANGED <<captureVars, nonProxyVars>>

\* is_in_scope, lines 31-54, under the read lock.
CheckScope(url) ==
    /\ scope_answer' = [asked |-> TRUE, config |-> scope, url |-> url,
                        in_scope |-> IsInScope(scope, url)]
    /\ UNCHANGED nonScopeVars

InitScopeAnswer == scope_answer = NoAnswer

NextScope ==
    \/ \E cfg \in AllScopeConfigs : SetConfig(cfg)
    \/ \E url \in ScopeUrls : CheckScope(url)

\* ------------------------------------------------------------------------
\* C24: is_in_scope answers true exactly when no exclude pattern occurs in
\* the URL and the include list is empty or one of its patterns occurs in
\* the URL; a URL matching both an exclude and an include is out of scope.
\* ------------------------------------------------------------------------
C24_Occurs(list, url) ==
    \E i \in 1..Len(list) : \E k \in 0..(Len(url) - Len(list[i])) :
       \A j \in 1..Len(list[i]) : url[k + j] = list[i][j]

C24_ExcludeWins ==
    scope_answer.asked =>
       (scope_answer.in_scope <=>
          /\ ~C24_Occurs(scope_answer.config.excludes, scope_answer.url)
          /\ \/ scope_answer.config.includes = <<>>
             \/ C24_Occurs(scope_answer.config.includes, scope_answer.url))

C24_Witness ==
    /\ scope_answer.asked
    /\ C24_Occurs(scope_answer.config.excludes, scope_answer.url)
    /\ C24_Occurs(scope_answer.config.includes, scope_answer.url)
    /\ ~scope_answer.in_scope

\* ------------------------------------------------------------------------
\* C25: in a Response pass, the iteration that visits a rule with a
\* UrlContains or UrlRegex condition does not execute its action: headers
\* and body stay as they are, whatever the URL of the request.
\* ------------------------------------------------------------------------
C25_UrlRule(r) == r.condition.kind \in {"UrlContains", "UrlRegex"}

C25_Step ==
    (passPc = "Response" /\ passIdx <= Len(rules) /\ C25_UrlRule(rules[passIdx]))
       => /\ applied' = applied
          /\ passHeaders' = passHeaders
          /\ passBody' = passBody

C25_UrlConditionNeverMatchesResponse == [][C25_Step]_vars

\* A Response pass has gone past an active Response rule whose URL condition
\* holds of the request URL, with a body its action would have changed.
C25_Witness ==
    /\ passPc = "Response"
    /\ passIdx = 2
    /\ rules[1].active /\ rules[1].rule_type = "Response" /\ C25_UrlRule(rules[1])
    /\ MatchesRequest(rules[1], passUrl, passHeaders, passBody)
    /\ ExecuteAction(rules[1], passHeaders, passBody).body # passBody
    /\ applied = <<>>

\* ------------------------------------------------------------------------
\* C26: the iteration of a pass that visits a rule one of whose regex
\* patterns does not compile leaves headers and body as they are, leaves the
\* rule list as it is, and moves on to the next rule of the same pass.
\* ------------------------------------------------------------------------
C26_Broken(r) ==
    \E p \in ConditionPattern(r.condition) \cup ActionPattern(r.action) : ~RegexCompiles(p)

C26_Step ==
    (passPc # "idle" /\ passIdx <= Len(rules) /\ C26_Broken(rules[passIdx]))
       => /\ passHeaders' = passHeaders
          /\ passBody' = passBody
          /\ rules' = rules
          /\ passPc' = passPc
          /\ passIdx' = passIdx + 1
          /\ regex_cache' \subseteq {p \in regex_cache' : RegexCompiles(p)}

C26_BadRegexIsNoOp == [][C26_Step]_vars

\* A pass went through a rule whose condition matched and whose action
\* pattern does not compile, and the rule after it has rewritten the body.
C26_Witness ==
    /\ passPc # "idle"
    /\ passIdx = 3
    /\ C26_Broken(rules[1])
    /\ applied = <<1, 2>>
    /\ passBody # passInput.body

\* ------------------------------------------------------------------------
\* C27: every captured request that was received inside a TLS-intercepted
\* CONNECT tunnel has tls = true, and every captured request that was
\* received in cleartext has tls = false.
\* ------------------------------------------------------------------------
C27_TlsFlagTellsTheChannel ==
    \A i \in 1..Len(entries) :
       "via" \in DOMAIN entries[i] =>
          /\ entries[i].via = "tunnel" => entries[i].tls
          /\ entries[i].via = "cleartext" => ~entries[i].tls

\* ------------------------------------------------------------------------
\* C28: the response the service returns to a request that is not a CONNECT,
\* whose URI has no authority and that has no Host header, has status 400,
\* and nothing was sent upstream for it.
\* ------------------------------------------------------------------------
C28_NoHost(r) ==
    /\ r.method \notin {"", "CONNECT"}
    /\ r.uri.authority = <<>>
    /\ HostFromHeaders(r.headers) = <<>>

C28_MissingHostIs400 ==
    \A c \in Conns :
       (conn[c].pc = "reply" /\ C28_NoHost(conn[c].req))
          => conn[c].resp.status = 400 /\ conn[c].fwd = NoReq

\* ------------------------------------------------------------------------
\* CaptureStorage (int3rceptor/core/src/storage.rs) driven directly: insert,
\* clear and query on the captures table, whose encrypted columns can stop
\* verifying (a changed byte on disk, a changed key).
\* ------------------------------------------------------------------------
RowIds == 1..MaxRows

\* The encrypted columns of a row; "none" is a row that decrypts.
Columns == {"headers", "body", "resp_headers", "resp_body"}

NoQuery == [called |-> FALSE, rows |-> {}, damage |-> <<>>, ok |-> TRUE,
            entries |-> <<>>]

\* ORDER BY id DESC
RECURSIVE IdDesc(_)
IdDesc(ids) ==
    IF ids = {} THEN <<>>
    ELSE LET top == CHOOSE i \in ids : \A j \in ids : j <= i
         IN  <<top>> \o IdDesc(ids \ {top})

\* decrypt_if_enabled, lines 178-188: whether it returns Ok for the column.
DecryptOk(enc, damage, id, col) == ~enc \/ damage[id] # col

\* query, lines 188-239: the loop over the selected rows.  A request header
\* column that fails to decrypt returns Err from the whole query (line 191);
\* any other column that fails is read as empty (lines 198, 216, 223).
RECURSIVE QueryRows(_, _, _, _)
QueryRows(order, enc, damage, acc) ==
    IF order = <<>> THEN [ok |-> TRUE, entries |-> acc]
    ELSE LET id == Head(order)
         IN  IF ~DecryptOk(enc, damage, id, "headers")
             THEN [ok |-> FALSE, entries |-> <<>>]
             ELSE QueryRows(Tail(order), enc, damage,
                            Append(acc, [id |-> id,
                                         blank |-> {col \in Columns :
                                                      ~DecryptOk(enc, damage, id, col)}]))

\* RequestCapture::query with a store, capture.rs line 140:
\* storage.query(filter).unwrap_or_default().
UnwrapOrDefault(res) == IF res.ok THEN res.entries ELSE <<>>

\* insert, lines 74-142: INSERT OR REPLACE of a freshly encrypted row.
StoreInsert(id) ==
    /\ rows' = rows \cup {id}
    /\ row_damage' = [i \in rows \cup {id} |-> IF i = id THEN "none" ELSE row_damage[i]]
    /\ UNCHANGED <<encryption, query_out, ringVars, nonStoreVars>>

\* clear, lines 144-148.
StoreClear ==
    /\ rows # {}
    /\ rows' = {}
    /\ row_damage' = <<>>
    /\ UNCHANGED <<encryption, query_out, ringVars, nonStoreVars>>

\* A column of a stored row stops verifying.
Damage(id, col) ==
    /\ encryption
    /\ id \in rows
    /\ row_damage[id] = "none"
    /\ row_damage' = [row_damage EXCEPT ![id] = col]
    /\ UNCHANGED <<encryption, rows, query_out, ringVars, nonStoreVars>>

\* RequestCapture::query with the default filter: every row matches and the
\* limit of 500 is not reached.
StoreQuery ==
    /\ LET res == QueryRows(IdDesc(rows), encryption, row_damage, <<>>)
       IN  query_out' = [called |-> TRUE, rows |-> rows, damage |-> row_damage,
                         ok |-> res.ok, entries |-> UnwrapOrDefault(res)]
    /\ UNCHANGED <<encryption, rows, row_damage, ringVars, nonStoreVars>>

\* A store with encryption off and an empty table.
InitStore ==
    /\ encryption = FALSE
    /\ row_damage = <<>>
    /\ query_out = NoQuery

\* A store with or without encryption and an empty table.
InitStoreEnc ==
    /\ encryption \in BOOLEAN
    /\ row_damage = <<>>
    /\ query_out = NoQuery

NextStore ==
    \/ \E id \in RowIds : StoreInsert(id)
    \/ StoreClear
    \/ \E id \in RowIds, col \in Columns : Damage(id, col)
    \/ StoreQuery

\* ------------------------------------------------------------------------
\* C29: a query returns exactly the rows all of whose columns decrypt: a
\* row with a column that fails authentication is left out, and every other
\* row is returned.
\* ------------------------------------------------------------------------
C29_TagFailureDropsOnlyThatRow ==
    query_out.called =>
       {query_out.entries[i].id : i \in 1..Len(query_out.entries)}
          = {id \in query_out.rows : query_out.damage[id] = "none"}

\* ------------------------------------------------------------------------
\* Intruder::generate_requests (core/src/intruder.rs).  A position is its
\* name; start and end are not read.
\* ------------------------------------------------------------------------
\* The section sign that delimits a marker.
SECTION == 167

\* format!("§{}§", position.name)
Marker(name) == <<SECTION>> \o name \o <<SECTION>>

\* A combination count that multiplies instead.
Times(b, e) == b * e

\* usize::pow, for results within usize.
RECURSIVE Pow(_, _)
Pow(b, e) == IF e = 0 THEN 1 ELSE b * Pow(b, e - 1)

\* generate_sniper, lines 186-191: the markers of the positions from k on
\* whose name differs are replaced by the empty string.
RECURSIVE BlankOthers(_, _, _, _)
BlankOthers(s, positions, k, name) ==
    IF k > Len(positions) THEN s
    ELSE BlankOthers(IF positions[k] # name THEN StrReplace(s, Marker(positions[k]), <<>>)
                     ELSE s,
                     positions, k + 1, name)

\* generate_battering lines 206-209, generate_pitchfork lines 225-229: the
\* marker of every position from k on is replaced by the payload.
RECURSIVE FillAll(_, _, _, _)
FillAll(s, positions, k, payload) ==
    IF k > Len(positions) THEN s
    ELSE FillAll(StrReplace(s, Marker(positions[k]), payload), positions, k + 1, payload)

\* generate_cluster_bomb, lines 256-262: the positions from k on take the
\* digits of combination_index in base payloads.len().
RECURSIVE FillCombination(_, _, _, _, _)
FillCombination(s, positions, k, payloads, combination_index) ==
    IF k > Len(positions) THEN s
    ELSE FillCombination(
            StrReplace(s, Marker(positions[k]),
                       payloads[(combination_index % Len(payloads)) + 1]),
            positions, k + 1, payloads, combination_index \div Len(payloads))

GenerateSniper(template, payloads, positions) ==
    [n \in 1..(Len(payloads) * Len(positions)) |->
        LET payload == payloads[((n - 1) \div Len(positions)) + 1]
            name == positions[((n - 1) % Len(positions)) + 1]
        IN  BlankOthers(StrReplace(template, Marker(name), payload), positions, 1, name)]

GenerateBattering(template, payloads, positions) ==
    [n \in 1..Len(payloads) |-> FillAll(template, positions, 1, payloads[n])]

\* payloads.get(i) is always Some for i < payload_count.
GeneratePitchfork(template, payloads, positions) ==
    [n \in 1..Len(payloads) |-> FillAll(template, positions, 1, payloads[n])]

GenerateClusterBomb(template, payloads, positions) ==
    IF Len(positions) = 0 THEN <<>>
    ELSE [n \in 1..Pow(Len(payloads), Len(positions)) |->
             FillCombination(template, positions, 1, payloads, n - 1)]

GenerateRequests(attack_type, template, payloads, positions) ==
    CASE attack_type = "Sniper" -> GenerateSniper(template, payloads, positions)
      [] attack_type = "Battering" -> GenerateBattering(template, payloads, positions)
      [] attack_type = "Pitchfork" -> GeneratePitchfork(template, payloads, positions)
      [] attack_type = "ClusterBomb" -> GenerateClusterBomb(template, payloads, positions)

AttackTypes == {"Sniper", "Battering", "Pitchfork", "ClusterBomb"}

\* "a=§a§.§b§" and a template without markers.
Templates ==
    { <<ChA>> \o Marker(<<ChA>>) \o <<DOT>> \o Marker(<<ChB>>), <<ChA, ChB>> }

\* Payloads: "2", "9", and one that reads like the marker of position b.
PayloadSet == { <<Ch2>>, <<Ch9>>, Marker(<<ChB>>) }

PayloadLists == UNION { [1..n -> PayloadSet] : n \in 0..MaxPayloads }

PositionLists == UNION { [1..n -> {<<ChA>>, <<ChB>>}] : n \in 0..MaxPositions }

NotGenerated == [called |-> FALSE, attack_type |-> "", template |-> <<>>,
                 payloads |-> <<>>, positions |-> <<>>, requests |-> <<>>]

\* generate_requests(template, config) on the arguments the caller holds.
Generate ==
    /\ ~generated.called
    /\ generated' = [generated EXCEPT
          !.called = TRUE,
          !.requests = GenerateRequests(generated.attack_type, generated.template,
                                        generated.payloads, generated.positions)]
    /\ UNCHANGED nonGenVars

\* Nobody is calling generate_requests.
InitGenerated == generated = NotGenerated

\* A caller holding any template and any configuration of the model.
InitGenerateArgs ==
    generated \in [called : {FALSE}, attack_type : AttackTypes, template : Templates,
                   payloads : PayloadLists, positions : PositionLists,
                   requests : {<<>>}]

NextGenerate == Generate

\* ------------------------------------------------------------------------
\* C30: the corpus has |payloads| * |positions| requests for Sniper,
\* |payloads| for Battering Ram and for Pitchfork, and
\* |payloads| ^ |positions| for Cluster Bomb, none when Cluster Bomb has no
\* position.
\* ------------------------------------------------------------------------
C30_Product(n, k) == Cardinality([1..k -> 1..n])

RECURSIVE C31_Substitute(_, _, _, _)
C31_Substitute(s, positions, payloads, f) ==
    IF s = <<>> THEN <<>>
    ELSE LET hit == {k \in 1..Len(positions) : StartsWith(s, Marker(positions[k]))}
         IN  IF hit = {}
             THEN <<Head(s)>> \o C31_Substitute(Tail(s), positions, payloads, f)
             ELSE LET k == CHOOSE j \in hit : \A i \in hit : j <= i
                  IN  payloads[f[k]]
                         \o C31_Substitute(SubSeq(s, Len(Marker(positions[k])) + 1, Len(s)),
                                           positions, payloads, f)

C31_BagOfSeq(seq) ==
    [x \in {seq[i] : i \in 1..Len(seq)} |-> Cardinality({i \in 1..Len(seq) : seq[i] = x})]

C31_ProductBag(template, payloads, positions) ==
    LET assignments == [1..Len(positions) -> 1..Len(payloads)]
        request(f) == C31_Substitute(template, positions, payloads, f)
    IN  [x \in {request(f) : f \in assignments} |->
            Cardinality({f \in assignments : request(f) = x})]

C31_CorpusIsCartesianProduct ==
    (/\ generated.called
     /\ generated.attack_type = "ClusterBomb"
     /\ Len(generated.positions) >= 1)
    => C31_BagOfSeq(generated.requests)
          = C31_ProductBag(generated.template, generated.payloads, generated.positions)

\* ------------------------------------------------------------------------
\* C32: while the dispatcher of the most recently started attack is active
\* and no stop was called since that start, is_running is true; the
\* dispatcher of an earlier attack never stores false under a newer attack,
\* and at most one attack has an active dispatcher at any time.
\* ------------------------------------------------------------------------
C32_Dispatching(a) == disp[a].pc \in {"poll", "acquire", "join"}

C32_RunningWhileLatestDispatches ==
    (attacks >= 1 /\ C32_Dispatching(attacks) /\ ~stop_called) => intruder_is_running

C32_OneDispatcher == Cardinality({a \in Jobs : C32_Dispatching(a)}) <= 1

C32_StaleDispatcherLeavesFlagAlone ==
    /\ C32_RunningWhileLatestDispatches
    /\ C32_OneDispatcher

\* ------------------------------------------------------------------------
\* C33: once start_attack has cleared the list for the attack it starts,
\* the list holds only results of that attack, the most recently started
\* one: no request task of an earlier attack appends to it.
\* ------------------------------------------------------------------------
C33_ResultsOfLatestAttackOnly ==
    (\A k \in Callers : call[k].pc # "clear")
       => \A i \in 1..Len(results) : results[i].attack = attacks

\* ------------------------------------------------------------------------
\* C39: every recorded result carries the ordinal of its request in the
\* generated corpus as request_id and the payload that was substituted
\* into that request, and an answered request appends exactly one result.
\* ------------------------------------------------------------------------
\* The payloads of the attacks of the model are the decimal numerals, and
\* request number id of the corpus holds payload number id.
C39_SubstitutedPayload(id) == ToString(id)

C39_OneResultPerAnswer ==
    \A a \in Jobs, id \in WorkIds :
       (task[a][id] = "collecting" /\ task'[a][id] = "none" /\ disp'[a].pc # "done")
          => /\ Len(results') = Len(results) + 1
             /\ results'[Len(results')].request_id = id
             /\ results'[Len(results')].attack = a

C39_ResultNamesRequestAndPayload ==
    /\ [](\A i \in 1..Len(results) :
             /\ results[i].request_id \in WorkIds
             /\ results[i].payload = C39_SubstitutedPayload(results[i].request_id))
    /\ [][C39_OneResultPerAnswer]_vars

\* ------------------------------------------------------------------------
\* C34: with a store and no storage error, whenever no push and no clear is
\* in progress the ring and the store agree: every entry of the ring has a
\* row, and a row whose entry is not in the ring belongs to an entry that
\* capacity evicted (the ring is full and the entry went in before every
\* entry the ring holds).
\* ------------------------------------------------------------------------
C34_Quiescent ==
    /\ storage
    /\ ~insert_err
    /\ ~clear_err
    /\ clearPc = "idle"
    /\ \A p \in Pushers : pushPc[p] = "idle"

\* The place of an id in the order the ring took the entries in.
C34_Place(id) == CHOOSE i \in 1..Len(inserted) : inserted[i] = id

C34_RingAndStoreAgree ==
    C34_Quiescent =>
       /\ Range(GetAll) \subseteq rows
       /\ \A id \in rows \ Range(GetAll) :
             /\ Len(entries) = capacity
             /\ \A e \in Range(GetAll) : C34_Place(id) < C34_Place(e)

\* The scheduling of the tasks of a scan: the runtime keeps polling a
\* dispatcher and a target task that can go on, and a payload under test
\* ends.
ScanDispStep(s) == ScanPoll(s) \/ ScanSpawn(s)

ScanTaskStep(s, t) == ScanTaskPoll(s, t) \/ ScanTaskTested(s, t)

FairScan ==
    /\ \A s \in Jobs : WF_vars(ScanDispStep(s))
    /\ \A s \in Jobs, t \in WorkIds : WF_vars(ScanTaskStep(s, t))

\* ------------------------------------------------------------------------
\* C35: every started active scan finishes by itself, whatever the
\* configured concurrency (0 included): its dispatcher, once spawned, always
\* reaches its end, where it stores is_running = false; it never waits for
\* a permit forever.
\* ------------------------------------------------------------------------
C35_Started(s) == sdisp[s].pc \in {"poll", "acquire"}

C35_EveryScanFinishes ==
    \A s \in Jobs : C35_Started(s) ~> (sdisp[s].pc = "done")

\* ------------------------------------------------------------------------
\* C36: every in-scope request that is not a CONNECT and that the proxy
\* answers has produced exactly one capture entry when the answer is
\* written, whatever the upstream exchange came to.
\* ------------------------------------------------------------------------
C36_InScopeForward(r) ==
    LET n == NormalizeUri(r.uri, r.headers)
    IN  /\ r.method \notin {"", "CONNECT"}
        /\ n.ok
        /\ C3_InScope(UriToString(n.uri))

C36_Answers(c) == conn[c].pc = "reply" /\ conn'[c].written = conn[c].written + 1

C36_OneEntryPerAnsweredRequest ==
    [][\A c \in Conns :
          (C36_Answers(c) /\ C36_InScopeForward(conn[c].req)) => conn[c].captured = 1]_vars

\* ------------------------------------------------------------------------
\* C37: a query whose filter matches everything returns every entry that
\* is in the ring, with or without a store and whatever store write or read
\* has failed; stated for the moments at which no push and no clear is in
\* progress.
\* ------------------------------------------------------------------------
C37_QueryNeverOmitsRingEntries ==
    (clearPc = "idle" /\ \A p \in Pushers : pushPc[p] = "idle")
       => \A q \in QueryResults : Range(GetAll) \subseteq q

\* ------------------------------------------------------------------------
\* C38: for an in-scope request the request sent upstream is the client's
\* request after the request rules, the response returned to the client is
\* the upstream response after the response rules, and the capture entry
\* pushed when the upstream has answered holds exactly that request and
\* that response.
\* ------------------------------------------------------------------------
C38_UpstreamAnswered(c) ==
    /\ conn[c].pc = "upstream"
    /\ conn'[c].pc = "reply"
    /\ conn'[c].up # NoResp

C38_RulesAroundUpstream(c) ==
    LET r == conn[c].req
        n == NormalizeUri(r.uri, r.headers)
        sent == ApplyRules(rules, "Request", UriToString(n.uri), r.headers, r.body)
        back == ApplyRules(rules, "Response", <<>>, conn'[c].up.headers, conn'[c].up.body)
    IN  /\ conn[c].fwd = Req(r.method, n.uri, sent.headers, sent.body)
        /\ conn'[c].resp = Resp(conn'[c].up.status, back.headers, back.body)

C38_EntryHoldsTransaction(c) ==
    /\ Len(entries') >= 1
    /\ entries'[1].id = counter
    /\ entries'[1].method = conn[c].fwd.method
    /\ entries'[1].url = UriToString(conn[c].fwd.uri)
    /\ entries'[1].headers = conn[c].fwd.headers
    /\ entries'[1].body = conn[c].fwd.body
    /\ entries'[1].response = conn'[c].resp

C38_PipelineOrder ==
    [][\A c \in Conns :
          C38_UpstreamAnswered(c) =>
             /\ C38_RulesAroundUpstream(c)
             /\ C38_EntryHoldsTransaction(c)]_vars

\* ------------------------------------------------------------------------
\* C40: reload_plugin is atomic for the registry: when the load of the new
\* module fails the plugin that was loaded stays registered, and a hook
\* executed while a reload is under way invokes the plugin, in its old or
\* in its new version (both enabled).
\* ------------------------------------------------------------------------
C40_FailedReloadKeepsPlugin ==
    (reload.pc = "load" /\ reload'.pc = "idle" /\ reload'.ret = "Err" /\ reload.had)
       => \E p \in plugins' : p.name = reload.name

C40_HookDuringReloadRunsPlugin ==
    (/\ hookPc = "idle"
     /\ hookPc' = "returned"
     /\ reload.pc = "load"
     /\ reload.old_enabled
     /\ reload.cfg.enabled)
       => \E i \in 1..Len(hook_calls') : hook_calls'[i].name = reload.name

C40_ReloadIsAtomic ==
    [][C40_FailedReloadKeepsPlugin /\ C40_HookDuringReloadRunsPlugin]_vars

\* ------------------------------------------------------------------------
\* Specifications.  Each one runs one subsystem; the others stay as they
\* are constructed.
\* ------------------------------------------------------------------------
\* The capture ring before any push, with a ring of capacity 2 and a store.
ParkedCapture ==
    /\ capacity = 2
    /\ entries = <<>>
    /\ counter = 1
    /\ notifier = <<>>
    /\ storage = TRUE
    /\ rows = {}
    /\ pushPc = [p \in Pushers |-> "idle"]
    /\ pushEntry = [p \in Pushers |-> [id |-> 0, url |-> "u1"]]
    /\ clearPc = "idle"
    /\ handed = <<>>
    /\ inserted = <<>>
    /\ returned = EmptyBag
    /\ clears = 0
    /\ before_clear = {}
    /\ clear_err = FALSE
    /\ insert_err = FALSE

\* A proxy that has accepted nothing, with the default scope and no TLS.
ParkedProxy ==
    /\ scope = [includes |-> <<>>, excludes |-> <<>>]
    /\ tls = FALSE
    /\ runPc = "accepting"
    /\ REQUEST_COUNTER = 1
    /\ conn = [c \in Conns |-> FreeConn]
    /\ tun = [c \in Conns |-> NoTunnel]

\* Engines nobody has started.
ParkedJobs ==
    /\ api = "intruder"
    /\ call = [k \in Callers |-> [pc |-> "idle", job |-> 0]]
    /\ last_return = "none"
    /\ stop_called = FALSE
    /\ stopped = {}
    /\ InitIntruder
    /\ InitScanner

InitCaptureSpec ==
    /\ InitCapture
    /\ InitRules
    /\ ParkedProxy
    /\ ParkedJobs
    /\ InitSubscriber
    /\ InitGenerated
    /\ InitStore
    /\ InitScopeAnswer
    /\ InitWs
    /\ InitCerts
    /\ InitPlugins

SpecCapture == InitCaptureSpec /\ [][NextCapture]_vars

\* The capture ring of capacity 2 with a store, two pushing threads and one
\* subscriber.
InitBroadcastSpec ==
    /\ ParkedCapture
    /\ InitRules
    /\ ParkedProxy
    /\ ParkedJobs
    /\ InitSubscriber
    /\ InitGenerated
    /\ InitStore
    /\ InitScopeAnswer
    /\ InitWs
    /\ InitCerts
    /\ InitPlugins

SpecBroadcast == InitBroadcastSpec /\ [][NextBroadcast]_vars

InitRulesSpec ==
    /\ ParkedCapture
    /\ InitRules
    /\ ParkedProxy
    /\ ParkedJobs
    /\ InitSubscriber
    /\ InitGenerated
    /\ InitStore
    /\ InitScopeAnswer
    /\ InitWs
    /\ InitCerts
    /\ InitPlugins

SpecRules == InitRulesSpec /\ [][NextRules]_vars

\* The rules the proxy runs with: one request rule and one response rule that
\* fire on every transaction of the model, their patterns already compiled.
ProxyRules ==
    << Rule(TRUE, "Request", Cond("UrlRegex", "", <<DOT>>),
            Act("SetHeader", "X-A", <<ChB>>, <<>>)),
       Rule(TRUE, "Response", Cond("BodyContains", "", <<ChA>>),
            Act("ReplaceBody", "", <<ChA>>, <<ChB, ChB>>)) >>

\* The plugin the proxy runs with.
ProxyPlugins == {[name |-> <<ChA>>, enabled |-> TRUE]}

InitProxySpec ==
    /\ capacity = EffectiveCapacity(0)
    /\ entries = <<>>
    /\ counter = 1
    /\ notifier = <<>>
    /\ storage = FALSE
    /\ rows = {}
    /\ pushPc = [p \in Pushers |-> "idle"]
    /\ pushEntry = [p \in Pushers |-> [id |-> 0, url |-> "u1"]]
    /\ clearPc = "idle"
    /\ handed = <<>>
    /\ inserted = <<>>
    /\ returned = EmptyBag
    /\ clears = 0
    /\ before_clear = {}
    /\ clear_err = FALSE
    /\ insert_err = FALSE
    /\ rules = ProxyRules
    /\ regex_cache = {<<DOT>>}
    /\ passPc = "idle"
    /\ passIdx = 0
    /\ passUrl = <<>>
    /\ passHeaders = <<>>
    /\ passBody = <<>>
    /\ passInput = [headers |-> <<>>, body |-> <<>>]
    /\ applied = <<>>
    /\ bodyRewritten = FALSE
    /\ hadLength = FALSE
    /\ InitProxy
    /\ ParkedJobs
    /\ InitSubscriber
    /\ InitGenerated
    /\ InitStore
    /\ InitScopeAnswer
    /\ InitWs
    /\ InitCerts
    /\ plugins = ProxyPlugins
    /\ hookPc = "idle"
    /\ hook_order = <<>>
    /\ hook_input = NoContext
    /\ hook_calls = <<>>
    /\ hook_output = NoContext
    /\ reload = NoReload

SpecProxy == InitProxySpec /\ [][NextProxy]_vars

FairSpecProxy == SpecProxy /\ FairProxy

InitJobsSpec ==
    /\ ParkedCapture
    /\ InitRules
    /\ ParkedProxy
    /\ InitJobs
    /\ InitSubscriber
    /\ InitGenerated
    /\ InitStore
    /\ InitScopeAnswer
    /\ InitWs
    /\ InitCerts
    /\ InitPlugins

\* The plugin manager, with everything else as constructed.
InitPluginsSpec ==
    /\ ParkedCapture
    /\ InitRules
    /\ ParkedProxy
    /\ ParkedJobs
    /\ InitSubscriber
    /\ InitGenerated
    /\ InitStore
    /\ InitScopeAnswer
    /\ InitWs
    /\ InitCerts
    /\ InitPlugins

SpecPlugins == InitPluginsSpec /\ [][NextPlugins]_vars

\* The certificate manager with a cold cache, with everything else parked.
InitCertsSpec ==
    /\ ParkedCapture
    /\ InitRules
    /\ ParkedProxy
    /\ ParkedJobs
    /\ InitSubscriber
    /\ InitGenerated
    /\ InitStore
    /\ InitScopeAnswer
    /\ InitWs
    /\ InitPlugins
    /\ InitCerts

SpecCerts == InitCertsSpec /\ [][NextCerts]_vars

\* The WebSocket capture under every pair of caps, with everything else
\* parked.
InitWsSpec ==
    /\ ParkedCapture
    /\ InitRules
    /\ ParkedProxy
    /\ ParkedJobs
    /\ InitSubscriber
    /\ InitGenerated
    /\ InitStore
    /\ InitScopeAnswer
    /\ InitPlugins
    /\ InitCerts
    /\ InitWsLimits

SpecWs == InitWsSpec /\ [][NextWs]_vars

\* The scope manager as constructed, with everything else parked.
InitScopeSpec ==
    /\ ParkedCapture
    /\ InitRules
    /\ ParkedProxy
    /\ ParkedJobs
    /\ InitSubscriber
    /\ InitGenerated
    /\ InitStore
    /\ InitPlugins
    /\ InitCerts
    /\ InitWs
    /\ InitScopeAnswer

SpecScope == InitScopeSpec /\ [][NextScope]_vars

\* The store alone, with or without encryption, and everything else parked.
InitStoreSpec ==
    /\ ParkedCapture
    /\ InitRules
    /\ ParkedProxy
    /\ ParkedJobs
    /\ InitSubscriber
    /\ InitGenerated
    /\ InitPlugins
    /\ InitCerts
    /\ InitWs
    /\ InitScopeAnswer
    /\ InitStoreEnc

SpecStore == InitStoreSpec /\ [][NextStore]_vars

\* A caller of generate_requests, with everything else parked.
InitGenerateSpec ==
    /\ ParkedCapture
    /\ InitRules
    /\ ParkedProxy
    /\ ParkedJobs
    /\ InitSubscriber
    /\ InitPlugins
    /\ InitCerts
    /\ InitWs
    /\ InitScopeAnswer
    /\ InitStore
    /\ InitGenerateArgs

SpecGenerate == InitGenerateSpec /\ [][NextGenerate]_vars

SpecJobs == InitJobsSpec /\ [][NextJobs]_vars

FairSpecJobs == SpecJobs /\ FairJobs

FairSpecScan == SpecJobs /\ FairScan

====
